---- MODULE Spec2Model ----
(***************************************************************************)
(* EOD auto reporter: the pipeline orchestrator (app/scheduler.py,         *)
(* app/main.py) as a system of worker threads, and the pure core           *)
(* (clickup_service._parse_tasks, summary_service) as operators applied    *)
(* to bounded inputs.                                                      *)
(***************************************************************************)
EXTENDS Integers, Sequences, FiniteSets, TLC

\* ---------------------------------------------------------------------
\* Bounds
\* ---------------------------------------------------------------------
MaxRuns == 2        \* pipeline runs (manual or scheduled) in one behaviour
MaxErrLen == 201    \* longest exception message raised by a stage
MaxRaw == 2         \* raw work items returned by the tracker in one fetch
MaxTasks == 2       \* items in ClickUpActivity.tasks_updated
MaxCompleted == 2   \* items in ClickUpActivity.tasks_completed
MaxNext == 4        \* items in ClickUpActivity.status_changes
MaxCommits == 2     \* items in GitHubActivity.commits
MaxPRs == 1         \* items in GitHubActivity.prs_opened, and in prs_merged
MaxComments == 3    \* items in ClickUpActivity.comments
MaxCount == 3       \* items in each list of the activity the fallback counts
MaxOver == 1        \* items of a list beyond its cap
MaxPushed == 3      \* commits in the push events of one fetch, all events together
MaxCalls == 3       \* calls of start, stop and check_health on the desktop scheduler
MaxExecs == 2       \* executions of LocalScheduler._run_pipeline
MaxNotes == 2       \* items in DailyActivity.manual_updates (but for two batches)

\* ---------------------------------------------------------------------
\* Program constants
\* ---------------------------------------------------------------------
ErrLimit == 200     \* str(exc)[:200]

None == "None"
NoHolder == 0       \* threading.Lock() not held
NoTime == 0         \* "timestamp": None
Nothing == <<>>     \* an optional text that is None
Some(v) == <<v>>    \* an optional text that is set
Runs == 1..MaxRuns

\* A string of n characters (the characters differ so that a prefix is
\* distinguishable from any other substring).
Str(n) == [i \in 1..n |-> i % 7]

\* Python slice s[:k]
Slice(s, k) == SubSeq(s, 1, IF Len(s) <= k THEN Len(s) ELSE k)

\* Messages an exception escaping run_eod_pipeline may carry.
ErrMsgs == {Str(ErrLimit), Str(MaxErrLen)}

VARIABLES
    cfg,                    \* desktop config read by _load_eod_config
    kind,                   \* per run: "none" | "manual" | "scheduled"
    pc,                     \* per run: position of its worker thread
    calls,                  \* per run: the collaborator calls its pipeline made
    daily,                  \* per run: the DailyActivity being assembled
    ret,                    \* per run: how its run_eod_pipeline ended
    response,               \* per run: the TriggerResponse sent to the caller
    finished,               \* per run: time at which the run ended (0 = not yet)
    send_lock,              \* _send_lock: None or the run holding it
    last_pipeline_result,   \* _last_pipeline_result
    now,                    \* datetime.now(): a logical clock
    raw_tasks,              \* _parse_tasks: the raw task dicts it is given
    parsed,                 \* _parse_tasks: what it returned
    cu,                     \* the ClickUpActivity handed to the renderer
    hierarchy,              \* _build_task_hierarchy: what it returned
    cu_elements,            \* _build_clickup_elements: what it returned
    activity,               \* the DailyActivity handed to the summary service
    blocks,                 \* generate_summary_blocks: what it returned
    summary,                \* generate_summary: what it returned
    manual,                 \* _load_manual_updates: the stored notes, what it returned
    cu_fetch,               \* fetch_clickup_activity: the parent fetches it made, how it ended
    push,                   \* _parse_commits: the push events it is given, what it returned
    ls,                     \* the desktop LocalScheduler, its underlying schedulers, its runs
    walk                    \* _build_clickup_elements: the position of its loops

pvars == <<cfg, kind, pc, calls, daily, ret, response, finished,
           send_lock, last_pipeline_result, now>>
cvars == <<raw_tasks, parsed, cu, hierarchy, cu_elements>>
svars == <<manual, cu_fetch, push, ls, walk>>
rvars == <<activity, blocks, summary, svars>>
vars == <<pvars, cvars, rvars>>

\* ---------------------------------------------------------------------
\* Values
\* ---------------------------------------------------------------------
SkipMsg == "Skipping EOD report - user is marked OOO in Slack."
FallbackText == "fallback_text"

EmptyActivity == "empty"       \* GitHubActivity() / ClickUpActivity()
FetchedActivity == "fetched"   \* what a successful fetch returned

NoReturn == [how |-> "none", value |-> None, exc |-> <<>>]
Returned(v) == [how |-> "return", value |-> v, exc |-> <<>>]
Raised(e) == [how |-> "raise", value |-> None, exc |-> e]

Call(fn, out) == [fn |-> fn, out |-> out]

NoResponse == [status |-> None, message |-> None]   \* nothing sent yet

\* (a handler that turns a trigger away while a run holds the lock)
TriggerResponseBusy(lock) ==
    IF lock = NoHolder
    THEN [status |-> "accepted",
          message |-> "EOD pipeline has been triggered and is running in the background."]
    ELSE [status |-> "busy",
          message |-> "EOD pipeline is already running."]

\* TriggerResponse(status="accepted", message=...)
TriggerResponse(lock) ==
    [status |-> "accepted",
     message |-> "EOD pipeline has been triggered and is running in the background."]

\* stages in which a run is inside run_eod_pipeline
InPipeline == {"ooo_check", "fetch_github", "fetch_clickup",
               "render", "deliver"}

\* the next unused run id: runs are started in id order
Fresh(r) == kind[r] = "none" /\ \A q \in Runs : q < r => kind[q] # "none"

\* ---------------------------------------------------------------------
\* Init
\* ---------------------------------------------------------------------
PipelineInit ==
    /\ cfg \in [show_github : BOOLEAN, show_clickup : BOOLEAN]
    /\ kind = [r \in Runs |-> "none"]
    /\ pc = [r \in Runs |-> "idle"]
    /\ calls = [r \in Runs |-> <<>>]
    /\ daily = [r \in Runs |-> [github |-> None, clickup |-> None]]
    /\ ret = [r \in Runs |-> NoReturn]
    /\ response = [r \in Runs |-> NoResponse]
    /\ finished = [r \in Runs |-> 0]
    /\ send_lock = NoHolder
    /\ last_pipeline_result = [timestamp |-> NoTime, status |-> None, error |-> Nothing]
    /\ now = 0

\* ---------------------------------------------------------------------
\* POST /trigger-eod: queue _run as a background task and answer
\* ---------------------------------------------------------------------
TriggerEod(r) ==
    /\ Fresh(r)
    /\ kind' = [kind EXCEPT ![r] = "manual"]
    /\ pc' = [pc EXCEPT ![r] = "queued"]
    /\ response' = [response EXCEPT ![r] = TriggerResponse(send_lock)]
    /\ UNCHANGED <<cfg, calls, daily, ret, finished, send_lock,
                   last_pipeline_result, now>>

\* _run: "with _send_lock:" - blocks until the lock is free
AcquireSendLock(r) ==
    /\ pc[r] = "queued"
    /\ send_lock = NoHolder
    /\ send_lock' = r
    /\ pc' = [pc EXCEPT ![r] = "ooo_check"]
    /\ UNCHANGED <<cfg, kind, calls, daily, ret, response, finished,
                   last_pipeline_result, now>>

\* The cron trigger fires _scheduled_eod_job in an executor thread; the job
\* is registered with the default max_instances = 1, so a firing while the
\* previous scheduled instance still runs is skipped.
ScheduledFire(r) ==
    /\ Fresh(r)
    /\ \A q \in Runs : kind[q] = "scheduled" => pc[q] = "done"
    /\ kind' = [kind EXCEPT ![r] = "scheduled"]
    /\ pc' = [pc EXCEPT ![r] = "ooo_check"]
    /\ UNCHANGED <<cfg, calls, daily, ret, response, finished,
                   send_lock, last_pipeline_result, now>>

\* ---------------------------------------------------------------------
\* run_eod_pipeline, one action per collaborator call
\* ---------------------------------------------------------------------
\* if slack_service.is_user_ooo(): return msg
OOOGuardFallsThrough(r, away) ==
    /\ pc' = [pc EXCEPT ![r] = "fetch_github"]
    /\ ret' = ret

OOOGuard(r, away) ==
    IF away
    THEN /\ pc' = [pc EXCEPT ![r] = "returned"]
         /\ ret' = [ret EXCEPT ![r] = Returned(SkipMsg)]
    ELSE /\ pc' = [pc EXCEPT ![r] = "fetch_github"]
         /\ ret' = ret

CheckOOO(r) ==
    /\ pc[r] = "ooo_check"
    /\ \E away \in BOOLEAN :
        /\ calls' = [calls EXCEPT ![r] = Append(@, Call("is_user_ooo", IF away THEN "away" ELSE "present"))]
        /\ OOOGuard(r, away)
    /\ UNCHANGED <<cfg, kind, daily, response, finished, send_lock,
                   last_pipeline_result, now>>

\* What a fetcher hands back: its try/except turns any failure into the
\* empty activity value.
FetcherResultRaises(failed) == IF failed THEN None ELSE FetchedActivity

FetcherResult(failed) == IF failed THEN EmptyActivity ELSE FetchedActivity

\* gh_activity = fetch_github_activity() if show_github else GitHubActivity()
FetchGithub(r) ==
    /\ pc[r] = "fetch_github"
    /\ IF cfg.show_github
       THEN \E failed \in BOOLEAN :
              /\ calls' = [calls EXCEPT ![r] =
                    Append(@, Call("fetch_github_activity",
                                   IF failed THEN "failed" ELSE "ok"))]
              /\ daily' = [daily EXCEPT ![r].github = FetcherResult(failed)]
       ELSE /\ calls' = calls
            /\ daily' = [daily EXCEPT ![r].github = EmptyActivity]
    /\ pc' = [pc EXCEPT ![r] = "fetch_clickup"]
    /\ UNCHANGED <<cfg, kind, ret, response, finished, send_lock,
                   last_pipeline_result, now>>

\* cu_activity = fetch_clickup_activity() if show_clickup else ClickUpActivity()
FetchClickup(r) ==
    /\ pc[r] = "fetch_clickup"
    /\ IF cfg.show_clickup
       THEN \E failed \in BOOLEAN :
              /\ calls' = [calls EXCEPT ![r] =
                    Append(@, Call("fetch_clickup_activity",
                                   IF failed THEN "failed" ELSE "ok"))]
              /\ daily' = [daily EXCEPT ![r].clickup = FetcherResult(failed)]
       ELSE /\ calls' = calls
            /\ daily' = [daily EXCEPT ![r].clickup = EmptyActivity]
    /\ pc' = [pc EXCEPT ![r] = "render"]
    /\ UNCHANGED <<cfg, kind, ret, response, finished, send_lock,
                   last_pipeline_result, now>>

\* blocks = summary_service.generate_summary_blocks(daily)
\* fallback_text = summary_service.generate_summary(daily)
\* Both are pure and touch nothing shared, so the two calls are one step.
\* Nothing in run_eod_pipeline catches an exception escaping either call.
Render(r) ==
    /\ pc[r] = "render"
    /\ \/ /\ calls' = [calls EXCEPT ![r] =
                Append(Append(@, Call("generate_summary_blocks", "ok")),
                       Call("generate_summary", "ok"))]
          /\ pc' = [pc EXCEPT ![r] = "deliver"]
          /\ ret' = ret
       \/ \E e \in ErrMsgs :
          /\ calls' = [calls EXCEPT ![r] =
                Append(@, Call("generate_summary_blocks", "raised"))]
          /\ pc' = [pc EXCEPT ![r] = "raised"]
          /\ ret' = [ret EXCEPT ![r] = Raised(e)]
       \/ \E e \in ErrMsgs :
          /\ calls' = [calls EXCEPT ![r] =
                Append(Append(@, Call("generate_summary_blocks", "ok")),
                       Call("generate_summary", "raised"))]
          /\ pc' = [pc EXCEPT ![r] = "raised"]
          /\ ret' = [ret EXCEPT ![r] = Raised(e)]
    /\ UNCHANGED <<cfg, kind, daily, response, finished, send_lock,
                   last_pipeline_result, now>>

\* (a delivery step that tries again after a failed send)
SendMessageRetries(r) ==
    /\ pc[r] = "deliver"
    /\ \E success \in BOOLEAN :
        /\ calls' = [calls EXCEPT ![r] =
              Append(@, Call("send_message", IF success THEN "sent" ELSE "failed"))]
        /\ IF success \/ Len(calls[r]) > 6
           THEN /\ pc' = [pc EXCEPT ![r] = "returned"]
                /\ ret' = [ret EXCEPT ![r] = Returned(FallbackText)]
           ELSE /\ pc' = pc
                /\ ret' = ret
    /\ UNCHANGED <<cfg, kind, daily, response, finished, send_lock,
                   last_pipeline_result, now>>

\* success = slack_service.send_message(...); log; return fallback_text
SendMessage(r) ==
    /\ pc[r] = "deliver"
    /\ \E success \in BOOLEAN :
        calls' = [calls EXCEPT ![r] = Append(@, Call("send_message", IF success THEN "sent" ELSE "failed"))]
    /\ pc' = [pc EXCEPT ![r] = "returned"]
    /\ ret' = [ret EXCEPT ![r] = Returned(FallbackText)]
    /\ UNCHANGED <<cfg, kind, daily, response, finished, send_lock,
                   last_pipeline_result, now>>

\* ---------------------------------------------------------------------
\* the wrappers around run_eod_pipeline
\* ---------------------------------------------------------------------
\* what _run stores once run_eod_pipeline has returned or raised
RunResult(r, t) ==
    IF ret[r].how = "return"
    THEN [timestamp |-> t, status |-> "success", error |-> Nothing]
    ELSE [timestamp |-> t, status |-> "error",
          error |-> Some(Slice(ret[r].exc, ErrLimit))]

\* the worker thread ends: the locals of its run are gone
DropFrame(r) ==
    /\ calls' = [calls EXCEPT ![r] = <<>>]
    /\ daily' = [daily EXCEPT ![r] = [github |-> None, clickup |-> None]]
    /\ ret' = [ret EXCEPT ![r] = NoReturn]

\* (a _run that leaves the "with" block only when the pipeline returned)
ManualFinishHoldsOnError(r) ==
    /\ kind[r] = "manual"
    /\ pc[r] \in {"returned", "raised"}
    /\ now' = now + 1
    /\ last_pipeline_result' = RunResult(r, now')
    /\ finished' = [finished EXCEPT ![r] = now']
    /\ send_lock' = IF pc[r] = "raised" THEN send_lock ELSE NoHolder
    /\ pc' = [pc EXCEPT ![r] = "done"]
    /\ DropFrame(r)
    /\ UNCHANGED <<cfg, kind, response>>

\* _run: update _last_pipeline_result, then leave the "with" block
ManualFinish(r) ==
    /\ kind[r] = "manual"
    /\ pc[r] \in {"returned", "raised"}
    /\ now' = now + 1
    /\ last_pipeline_result' = RunResult(r, now')
    /\ finished' = [finished EXCEPT ![r] = now']
    /\ send_lock' = NoHolder
    /\ pc' = [pc EXCEPT ![r] = "done"]
    /\ DropFrame(r)
    /\ UNCHANGED <<cfg, kind, response>>

\* _scheduled_eod_job: try: run_eod_pipeline() except Exception: log
ScheduledFinish(r) ==
    /\ kind[r] = "scheduled"
    /\ pc[r] \in {"returned", "raised"}
    /\ now' = now + 1
    /\ finished' = [finished EXCEPT ![r] = now']
    /\ pc' = [pc EXCEPT ![r] = "done"]
    /\ DropFrame(r)
    /\ UNCHANGED <<cfg, kind, response, send_lock, last_pipeline_result>>

\* GET /api/scheduler: the fields taken from _last_pipeline_result
get_scheduler_status ==
    [last_run |-> last_pipeline_result.timestamp,
     last_status |-> last_pipeline_result.status]

PipelineNext ==
    \E r \in Runs :
        \/ TriggerEod(r)
        \/ AcquireSendLock(r)
        \/ ScheduledFire(r)
        \/ CheckOOO(r)
        \/ FetchGithub(r)
        \/ FetchClickup(r)
        \/ Render(r)
        \/ SendMessage(r)
        \/ ManualFinish(r)
        \/ ScheduledFinish(r)

\* =====================================================================
\* The pure core: texts, work items
\* =====================================================================
\* A text is a sequence of non-empty pieces whose concatenation is the
\* string; a piece that must be cut or measured is a single character.
\* The empty string is <<>>.

\* ClickUpTask; name and url are determined by the id.
ClickUpTask(id, status, parent) ==
    [task_id |-> id, name |-> <<"Task ", id>>, status |-> status,
     parent_id |-> parent, url |-> <<"https://app.clickup.com/t/", id>>]

Range(seq) == {seq[i] : i \in 1..Len(seq)}

\* Python truthiness of an Optional[str]
Truthy(x) == x # None /\ x # ""

\* ---------------------------------------------------------------------
\* clickup_service: classification
\* ---------------------------------------------------------------------
COMPLETED_STATUSES == {"complete", "closed", "done", "resolved"}

IN_PROGRESS_STATUSES == {"in progress", "in review", "review", "qa", "testing",
                         "dev-test", "ready for review", "in development"}

\* str.lower() on the strings the model feeds in
Lower(label) ==
    CASE label = "Done" -> "done"
      [] label = "CLOSED" -> "closed"
      [] label = "In Progress" -> "in progress"
      [] label = "QA" -> "qa"
      [] label = "Open" -> "open"
      [] label = "In Review" -> "in review"
      [] label = "Testing" -> "testing"
      [] label = "REVIEW" -> "review"
      [] label = "Complete" -> "complete"
      [] label = "Resolved" -> "resolved"
      [] label = "Octocat" -> "octocat"
      [] OTHER -> label

\* status labels as the tracker may send them
RawLabels ==
    COMPLETED_STATUSES \cup IN_PROGRESS_STATUSES
    \cup {"Done", "CLOSED", "In Progress", "QA", "Open"}
    \cup {"open", "to do", "done ", "not done", "progress"}

\* a raw task dict: status None stands for a dict without a status entry,
\* parent None for "parent": null
RawTask(id, status, parent) == [id |-> id, status |-> status, parent |-> parent]

RawUniverse ==
    {RawTask("a", l, None) : l \in RawLabels \cup {None}}
    \cup {RawTask("b", l, None) : l \in {"done", "In Progress", "open"}}
    \cup {RawTask(i, l, p) : i \in {"a", "b"}, l \in {"done", "in progress", "open"},
                             p \in {"a", "z"}}

\* (a label read without lower-casing it)
StatusLabelAsSent(t) ==
    IF t.status = None THEN "unknown" ELSE t.status

\* t.get("status", {}).get("status", "unknown").lower()
StatusLabel(t) ==
    Lower(IF t.status = None THEN "unknown" ELSE t.status)

\* _to_clickup_task
ToClickupTask(t) ==
    ClickUpTask(t.id, StatusLabel(t), IF Truthy(t.parent) THEN t.parent ELSE None)

NotParsed ==
    [called |-> FALSE, tasks_in_progress |-> <<>>, tasks_completed |-> <<>>,
     all_active |-> <<>>, parent_ids_needed |-> {}, parent_tasks |-> <<>>]

\* _parse_tasks, the classification loop
RECURSIVE ParseLoop(_, _, _)
ParseLoop(raw, i, acc) ==
    IF i > Len(raw) THEN acc
    ELSE LET t == raw[i]
             status_label == StatusLabel(t)
             task == ToClickupTask(t)
             needed == IF Truthy(t.parent)
                       THEN acc.parent_ids_needed \cup {t.parent}
                       ELSE acc.parent_ids_needed
         IN  IF status_label \in COMPLETED_STATUSES
             THEN ParseLoop(raw, i + 1,
                    [acc EXCEPT !.tasks_completed = Append(@, task),
                                !.all_active = Append(@, task),
                                !.parent_ids_needed = needed])
             ELSE IF status_label \in IN_PROGRESS_STATUSES
             THEN ParseLoop(raw, i + 1,
                    [acc EXCEPT !.tasks_in_progress = Append(@, task),
                                !.all_active = Append(@, task),
                                !.parent_ids_needed = needed])
             ELSE ParseLoop(raw, i + 1, acc)

\* what GET /task/{parent_id} may answer: None for an HTTP error
ParentAnswers == {None, "Open", "done"}

\* all ways to list the members of a set once each (iteration order of a set)
Orderings(S) ==
    {o \in [1..Cardinality(S) -> S] : \A x \in S : \E i \in DOMAIN o : o[i] = x}

\* _parse_tasks: classify, then fetch each needed parent that is not active.
\* parent_tasks is the dict in insertion order, as its list of values.
ParseTasks(raw, order, answer) ==
    LET acc == ParseLoop(raw, 1, NotParsed)
        active_ids == {t.task_id : t \in Range(acc.all_active)}
        fetched == SelectSeq(order,
                      LAMBDA pid : pid \notin active_ids /\ answer[pid] # None)
        ParentOf(pid) == ToClickupTask(RawTask(pid, answer[pid], None))
    IN  [acc EXCEPT !.called = TRUE,
                    !.parent_tasks = [i \in 1..Len(fetched) |-> ParentOf(fetched[i])]]

\* ---------------------------------------------------------------------
\* Specification of the classifier: any list of raw tasks, then one call
\* ---------------------------------------------------------------------
EmptyActivityCU ==
    [tasks_updated |-> <<>>, tasks_completed |-> <<>>,
     status_changes |-> <<>>, comments |-> <<>>]
NotBuilt == [called |-> FALSE, top_level |-> <<>>, children |-> [k \in {} |-> <<>>]]
NotRendered == [called |-> FALSE, elements |-> <<>>]

CoreIdle ==
    /\ raw_tasks = <<>>
    /\ parsed = NotParsed
    /\ cu = EmptyActivityCU
    /\ hierarchy = NotBuilt
    /\ cu_elements = NotRendered

\* GitHubActivity() and DailyActivity with nothing fetched
EmptyGitHubActivity == [commits |-> <<>>, prs_opened |-> <<>>, prs_merged |-> <<>>]
EmptyDailyActivity ==
    [github |-> EmptyGitHubActivity, clickup |-> EmptyActivityCU,
     manual_updates |-> <<>>]
NoText == [called |-> FALSE, text |-> <<>>]

\* the stored notes are a list (or something else), not read yet
NotLoaded(is_list, raw) ==
    [is_list |-> is_list, raw |-> raw, loaded |-> FALSE, updates |-> <<>>]

\* fetch_clickup_activity not called yet
NotFetched == [called |-> FALSE, parent_fetches |-> <<>>, raised |-> None]

\* _parse_commits not called yet on these push events
NotPushed(events) == [events |-> events, called |-> FALSE, commits |-> <<>>]

\* LocalScheduler.__init__. schedulers holds the state of every
\* BackgroundScheduler created so far and scheduler is an index into it
\* (0 for None);
\* status is what the on_status callback was told, each event with the
\* thread that reported it; runs is the position of every execution of
\* _run_pipeline; call, asked and returned describe the last call of
\* start, stop or check_health from outside and how it ended.
LocalSchedulerNew ==
    [scheduler |-> 0, running |-> FALSE, last_run |-> NoTime, last_result |-> None,
     hour |-> 18, minute |-> 0, timezone |-> "Asia/Kathmandu",
     schedulers |-> <<>>, status |-> <<>>, clock |-> 0,
     runs |-> [e \in 1..MaxExecs |-> [pc |-> "idle", kind |-> None, raised |-> FALSE]],
     calls |-> 0, call |-> None, asked |-> <<>>, returned |-> None]

\* _build_clickup_elements not entered yet: no loop has started, nothing
\* is filed or rendered
NotWalked ==
    [stage |-> "start", i |-> 0, j |-> 0, top_level |-> <<>>,
     children |-> [k \in {} |-> <<>>], rendered |-> {}]

\* the services before any of them is called, with these stored notes,
\* these push events and this desktop scheduler
Services(notes, events, local) ==
    /\ manual = notes
    /\ cu_fetch = NotFetched
    /\ push = NotPushed(events)
    /\ ls = local
    /\ walk = NotWalked
ServicesIdle == Services(NotLoaded(TRUE, <<>>), <<>>, LocalSchedulerNew)

SummaryIdle ==
    /\ activity = EmptyDailyActivity
    /\ blocks = NotRendered
    /\ summary = NoText
    /\ ServicesIdle

PipelineIdle ==
    /\ PipelineInit
    /\ cfg = [show_github |-> TRUE, show_clickup |-> TRUE]
    /\ SummaryIdle

\* the tracker returns one more raw task
AddRawTask ==
    /\ ~parsed.called
    /\ Len(raw_tasks) < MaxRaw
    /\ \E t \in RawUniverse : raw_tasks' = Append(raw_tasks, t)
    /\ UNCHANGED <<parsed, cu, hierarchy, cu_elements>>

\* _parse_tasks(raw_tasks)
CallParseTasks ==
    /\ ~parsed.called
    /\ LET needed == ParseLoop(raw_tasks, 1, NotParsed).parent_ids_needed
       IN  \E order \in Orderings(needed) :
           \E answer \in [needed -> ParentAnswers] :
               parsed' = ParseTasks(raw_tasks, order, answer)
    /\ UNCHANGED <<raw_tasks, cu, hierarchy, cu_elements>>

\* nothing fetched, nothing parsed or rendered yet
CoreInit == PipelineIdle /\ CoreIdle
ClassifyNext == (AddRawTask \/ CallParseTasks) /\ UNCHANGED <<pvars, rvars>>
SpecClassify == CoreInit /\ [][ClassifyNext]_vars

\* ---------------------------------------------------------------------
\* clickup_service.fetch_clickup_activity: parse, fetch the missing
\* parents, fetch the comments, assemble the ClickUpActivity
\* ---------------------------------------------------------------------
\* requests.get failing without an HTTP status (time-out, refused
\* connection): a RequestException that is not an HTTPError
ConnectionError == "ConnectionError"

\* fetch_clickup_activity. _fetch_parent_task turns an HTTPError into None
\* and lets every other exception through; so does _fetch_recent_comments.
\* What escapes _parse_tasks or the comment fetch lands in the except branch
\* of fetch_clickup_activity, which returns ClickUpActivity().
CallFetchClickupActivity ==
    /\ ~cu_fetch.called
    /\ ~parsed.called
    /\ LET acc == ParseLoop(raw_tasks, 1, NotParsed)
           needed == acc.parent_ids_needed
           active_ids == {t.task_id : t \in Range(acc.all_active)}
       IN  \E order \in Orderings(needed) :
           \E answer \in [needed -> ParentAnswers \cup {ConnectionError}] :
           \E comments_answer \in {"ok", ConnectionError} :
               LET todo == SelectSeq(order, LAMBDA pid : pid \notin active_ids)
                   failing == {i \in 1..Len(todo) : answer[todo[i]] = ConnectionError}
                   last == IF failing = {} THEN Len(todo)
                           ELSE CHOOSE i \in failing : \A j \in failing : i <= j
                   fetches == [i \in 1..last |->
                                  [pid |-> todo[i], answer |-> answer[todo[i]]]]
                   p == ParseTasks(raw_tasks, order, answer)
               IN  IF failing # {}
                   THEN /\ cu_fetch' = [called |-> TRUE, parent_fetches |-> fetches,
                                        raised |-> "parents"]
                        /\ cu' = EmptyActivityCU
                        /\ UNCHANGED parsed
                   ELSE /\ parsed' = p
                        /\ IF comments_answer = ConnectionError
                           THEN /\ cu_fetch' = [called |-> TRUE,
                                                parent_fetches |-> fetches,
                                                raised |-> "comments"]
                                /\ cu' = EmptyActivityCU
                           ELSE /\ cu_fetch' = [called |-> TRUE,
                                                parent_fetches |-> fetches,
                                                raised |-> None]
                                /\ cu' = [tasks_updated |->
                                              p.all_active \o p.parent_tasks,
                                          tasks_completed |-> p.tasks_completed,
                                          status_changes |-> p.tasks_in_progress,
                                          comments |-> <<>>]
    /\ UNCHANGED <<raw_tasks, hierarchy, cu_elements>>

FetchNext ==
    \/ AddRawTask /\ UNCHANGED <<pvars, rvars>>
    \/ CallFetchClickupActivity
       /\ UNCHANGED <<pvars, activity, blocks, summary, manual, push, ls, walk>>
SpecFetch == CoreInit /\ [][FetchNext]_vars

\* ---------------------------------------------------------------------
\* summary_service: Block Kit helpers
\* ---------------------------------------------------------------------
SubtextLineLimit == 100 \* _shorten_line(text, limit=100)

\* (a prefix table looked up with the label as it is written)
StatusPrefixAsWritten(status) ==
    CASE status = "in progress" -> "wip"
      [] status \in {"in review", "review", "qa", "testing"} -> "dev-test"
      [] status \in {"done", "complete", "closed", "resolved"} -> "completed"
      [] OTHER -> ""

\* _status_prefix
StatusPrefix(status) ==
    LET s == Lower(status)
    IN  CASE s = "in progress" -> "wip"
          [] s \in {"in review", "review", "qa", "testing"} -> "dev-test"
          [] s \in {"done", "complete", "closed", "resolved"} -> "completed"
          [] OTHER -> ""

\* f"{prefix}: " if prefix else ""
PrefixLabel(prefix) ==
    CASE prefix = "wip" -> <<"wip: ">>
      [] prefix = "dev-test" -> <<"dev-test: ">>
      [] prefix = "completed" -> <<"completed: ">>
      [] OTHER -> <<>>

\* f" - {prefix}" if prefix else ""
PrefixSuffix(prefix) ==
    CASE prefix = "wip" -> <<" - wip">>
      [] prefix = "dev-test" -> <<" - dev-test">>
      [] prefix = "completed" -> <<" - completed">>
      [] OTHER -> <<>>

\* _text
Text(t, bold, italic) ==
    [type |-> "text", text |-> t, url |-> <<>>, bold |-> bold, italic |-> italic]

\* _link
Link(url, t, bold) ==
    [type |-> "link", text |-> t, url |-> url, bold |-> bold, italic |-> FALSE]

\* _section: empty text nodes are dropped; an empty section gets " "
Section(elems) ==
    LET cleaned == SelectSeq(elems, LAMBDA e : ~(e.type = "text" /\ e.text = <<>>))
    IN  [type |-> "rich_text_section",
         elements |-> IF cleaned = <<>> THEN <<Text(<<" ">>, FALSE, FALSE)>>
                      ELSE cleaned]

\* _list_block
ListBlock(indent, items) ==
    [type |-> "rich_text_list", style |-> "bullet", indent |-> indent,
     elements |-> items]

\* ---------------------------------------------------------------------
\* summary_service: dicts
\* ---------------------------------------------------------------------
EmptyDict == [k \in {} |-> <<>>]
DictGet(d, k, default) == IF k \in DOMAIN d THEN d[k] ELSE default
\* defaultdict(list)[k].append(v)
DictAppend(d, k, v) ==
    [x \in DOMAIN d \cup {k} |-> IF x = k THEN Append(DictGet(d, k, <<>>), v) ELSE d[x]]
\* (the same, putting the new entry first)
DictPrepend(d, k, v) ==
    [x \in DOMAIN d \cup {k} |-> IF x = k THEN <<v>> \o DictGet(d, k, <<>>) ELSE d[x]]

\* ---------------------------------------------------------------------
\* summary_service._build_task_hierarchy
\* ---------------------------------------------------------------------
\* (a hierarchy builder that breaks a two-item parent cycle: the item that
\* comes first is filed as top-level)
RECURSIVE HierarchyLoopCycleOnTop(_, _, _, _)
HierarchyLoopCycleOnTop(tasks, i, task_by_id, acc) ==
    IF i > Len(tasks) THEN acc
    ELSE LET t == tasks[i]
             first_of_cycle ==
                 \E j \in (i + 1)..Len(tasks) :
                     tasks[j].task_id = t.parent_id /\ tasks[j].parent_id = t.task_id
         IN  IF Truthy(t.parent_id) /\ t.parent_id \in task_by_id /\ ~first_of_cycle
             THEN HierarchyLoopCycleOnTop(tasks, i + 1, task_by_id,
                    [acc EXCEPT !.children = DictAppend(@, t.parent_id, t)])
             ELSE HierarchyLoopCycleOnTop(tasks, i + 1, task_by_id,
                    [acc EXCEPT !.top_level = Append(@, t)])

RECURSIVE HierarchyLoop(_, _, _, _)
HierarchyLoop(tasks, i, task_by_id, acc) ==
    IF i > Len(tasks) THEN acc
    ELSE LET t == tasks[i]
         IN  IF Truthy(t.parent_id) /\ t.parent_id \in task_by_id
             THEN HierarchyLoop(tasks, i + 1, task_by_id,
                    [acc EXCEPT !.children = DictAppend(@, t.parent_id, t)])
             ELSE IF t.parent_id = None
             THEN HierarchyLoop(tasks, i + 1, task_by_id,
                    [acc EXCEPT !.top_level = Append(@, t)])
             ELSE HierarchyLoop(tasks, i + 1, task_by_id,
                    [acc EXCEPT !.top_level = Append(@, t)])

RECURSIVE HierarchyLoopPrepend(_, _, _, _)
HierarchyLoopPrepend(tasks, i, task_by_id, acc) ==
    IF i > Len(tasks) THEN acc
    ELSE LET t == tasks[i]
         IN  IF Truthy(t.parent_id) /\ t.parent_id \in task_by_id
             THEN HierarchyLoopPrepend(tasks, i + 1, task_by_id,
                    [acc EXCEPT !.children = DictPrepend(@, t.parent_id, t)])
             ELSE HierarchyLoopPrepend(tasks, i + 1, task_by_id,
                    [acc EXCEPT !.top_level = Append(@, t)])

\* (a hierarchy builder that puts each new child first in its list)
BuildTaskHierarchyPrepend(tasks) ==
    HierarchyLoopPrepend(tasks, 1, {t.task_id : t \in Range(tasks)},
                         [top_level |-> <<>>, children |-> EmptyDict])

BuildTaskHierarchy(tasks) ==
    HierarchyLoop(tasks, 1, {t.task_id : t \in Range(tasks)},
                  [top_level |-> <<>>, children |-> EmptyDict])

\* ---------------------------------------------------------------------
\* summary_service: comment subtext
\* ---------------------------------------------------------------------
IsSpace(c) == c \in {" ", "\n", "\t"}

RECURSIVE LStrip(_)
LStrip(text) ==
    IF text # <<>> /\ IsSpace(Head(text)) THEN LStrip(Tail(text)) ELSE text

RECURSIVE RStrip(_)
RStrip(text) ==
    IF text # <<>> /\ IsSpace(text[Len(text)])
    THEN RStrip(SubSeq(text, 1, Len(text) - 1)) ELSE text

\* str.strip()
Strip(text) == RStrip(LStrip(text))

\* str.split(): the maximal runs of characters that are not whitespace
Split(text) ==
    LET starts == SelectSeq([i \in 1..Len(text) |-> i], LAMBDA i :
                      ~IsSpace(text[i]) /\ (i = 1 \/ IsSpace(text[i - 1])))
        ends == SelectSeq([i \in 1..Len(text) |-> i], LAMBDA i :
                    ~IsSpace(text[i]) /\ (i = Len(text) \/ IsSpace(text[i + 1])))
    IN  [k \in 1..Len(starts) |-> SubSeq(text, starts[k], ends[k])]

\* sep.join(parts)
RECURSIVE Join(_, _)
Join(parts, sep) ==
    IF parts = <<>> THEN <<>>
    ELSE IF Len(parts) = 1 THEN parts[1]
    ELSE parts[1] \o sep \o Join(Tail(parts), sep)

\* " ".join(text.split())
JoinSplit(text) == Join(Split(text), <<" ">>)

\* the one-character ellipsis U+2026
Ellipsis == "..."

\* (a cut that keeps as many characters as the limit before the ellipsis)
ShortenLineCutAtLimit(text, limit) ==
    LET clean == JoinSplit(text)
    IN  IF Len(clean) <= limit THEN clean
        ELSE Append(RStrip(SubSeq(clean, 1, limit)), Ellipsis)

\* _shorten_line
ShortenLine(text, limit) ==
    LET clean == JoinSplit(text)
    IN  IF Len(clean) <= limit THEN clean
        ELSE Append(RStrip(SubSeq(clean, 1, limit - 1)), Ellipsis)

\* _group_comments_by_task
RECURSIVE GroupCommentsLoop(_, _, _)
GroupCommentsLoop(comments, i, grouped) ==
    IF i > Len(comments) THEN grouped
    ELSE LET c == comments[i]
             text == Strip(c.comment_text)
         IN  IF text # <<>>
             THEN GroupCommentsLoop(comments, i + 1, DictAppend(grouped, c.task_id, text))
             ELSE GroupCommentsLoop(comments, i + 1, grouped)

GroupCommentsByTask(comments) == GroupCommentsLoop(comments, 1, EmptyDict)

\* _task_comment_subtext
TaskCommentSubtext(task_id, comments_by_task) ==
    LET items == DictGet(comments_by_task, task_id, <<>>)
        line1 == <<"\nnote: ">> \o ShortenLine(items[1], SubtextLineLimit)
        line2 == <<"\nnote: ">> \o ShortenLine(items[2], SubtextLineLimit)
    IN  IF items = <<>> THEN <<>>
        ELSE IF Len(items) = 1 THEN line1
        ELSE line1 \o line2

\* ---------------------------------------------------------------------
\* summary_service._build_clickup_elements
\* ---------------------------------------------------------------------
\* _section(_text(label), _link(t.url, t.name), _text(subtext, italic=True))
ItemSection(label, t, cbt) ==
    Section(<<Text(label, FALSE, FALSE), Link(t.url, t.name, FALSE),
              Text(TaskCommentSubtext(t.task_id, cbt), FALSE, TRUE)>>)

\* _section(_link(child.url, child.name), _text(suffix), _text(subtext, italic=True))
ChildSection(child, cbt) ==
    Section(<<Link(child.url, child.name, FALSE),
              Text(PrefixSuffix(StatusPrefix(child.status)), FALSE, FALSE),
              Text(TaskCommentSubtext(child.task_id, cbt), FALSE, TRUE)>>)

\* for child in children.get(t.task_id, []): if child.task_id not in rendered
\* (a child loop that does not consult the rendered set)
RECURSIVE ChildLoopUnchecked(_, _, _, _)
ChildLoopUnchecked(kids, i, acc, cbt) ==
    IF i > Len(kids) THEN acc
    ELSE ChildLoopUnchecked(kids, i + 1,
            [items |-> Append(acc.items, ChildSection(kids[i], cbt)),
             rendered |-> acc.rendered \cup {kids[i].task_id}], cbt)

RECURSIVE ChildLoop(_, _, _, _)
ChildLoop(kids, i, acc, cbt) ==
    IF i > Len(kids) THEN acc
    ELSE LET child == kids[i]
         IN  IF child.task_id \notin acc.rendered
             THEN ChildLoop(kids, i + 1,
                    [items |-> Append(acc.items, ChildSection(child, cbt)),
                     rendered |-> acc.rendered \cup {child.task_id}], cbt)
             ELSE ChildLoop(kids, i + 1, acc, cbt)

\* the children of t as one indent-2 list, when there are any to show
NestChildren(st, t, children, cbt) ==
    LET res == ChildLoop(DictGet(children, t.task_id, <<>>), 1,
                         [items |-> <<>>, rendered |-> st.rendered], cbt)
    IN  [elements |-> IF res.items # <<>>
                      THEN Append(st.elements, ListBlock(2, res.items))
                      ELSE st.elements,
         rendered |-> res.rendered]

\* first pass: completed top-level items, each with its children
RECURSIVE CompletedTopLevelPass(_, _, _, _, _, _)
CompletedTopLevelPass(top_level, i, st, children, completed_ids, cbt) ==
    IF i > Len(top_level) THEN st
    ELSE LET t == top_level[i]
         IN  IF t.task_id \in completed_ids /\ t.task_id \notin st.rendered
             THEN CompletedTopLevelPass(top_level, i + 1,
                    NestChildren(
                      [elements |-> Append(st.elements,
                            ListBlock(1, <<ItemSection(<<"completed: ">>, t, cbt)>>)),
                       rendered |-> st.rendered \cup {t.task_id}],
                      t, children, cbt),
                    children, completed_ids, cbt)
             ELSE CompletedTopLevelPass(top_level, i + 1, st, children,
                                        completed_ids, cbt)

\* (a second pass that does not consult the rendered set)
RECURSIVE CompletedRestPassUnchecked(_, _, _, _)
CompletedRestPassUnchecked(tasks_completed, i, st, cbt) ==
    IF i > Len(tasks_completed) THEN st
    ELSE LET t == tasks_completed[i]
         IN  CompletedRestPassUnchecked(tasks_completed, i + 1,
                    [elements |-> Append(st.elements,
                          ListBlock(1, <<ItemSection(<<"completed: ">>, t, cbt)>>)),
                     rendered |-> st.rendered \cup {t.task_id}], cbt)

\* second pass: completed items not rendered yet
RECURSIVE CompletedRestPass(_, _, _, _)
CompletedRestPass(tasks_completed, i, st, cbt) ==
    IF i > Len(tasks_completed) THEN st
    ELSE LET t == tasks_completed[i]
         IN  IF t.task_id \notin st.rendered
             THEN CompletedRestPass(tasks_completed, i + 1,
                    [elements |-> Append(st.elements,
                          ListBlock(1, <<ItemSection(<<"completed: ">>, t, cbt)>>)),
                     rendered |-> st.rendered \cup {t.task_id}], cbt)
             ELSE CompletedRestPass(tasks_completed, i + 1, st, cbt)

\* (a third pass that emits the parents only, leaving their children to
\* the final flush)
RECURSIVE TopLevelPassFlat(_, _, _, _, _)
TopLevelPassFlat(top_level, i, st, children, cbt) ==
    IF i > Len(top_level) THEN st
    ELSE LET t == top_level[i]
         IN  IF t.task_id \in st.rendered
             THEN TopLevelPassFlat(top_level, i + 1, st, children, cbt)
             ELSE TopLevelPassFlat(top_level, i + 1,
                      [elements |-> Append(st.elements,
                            ListBlock(1, <<ItemSection(PrefixLabel(StatusPrefix(t.status)),
                                                       t, cbt)>>)),
                       rendered |-> st.rendered \cup {t.task_id}],
                    children, cbt)

\* third pass: the remaining top-level items, each with its children
RECURSIVE TopLevelPass(_, _, _, _, _)
TopLevelPass(top_level, i, st, children, cbt) ==
    IF i > Len(top_level) THEN st
    ELSE LET t == top_level[i]
         IN  IF t.task_id \in st.rendered
             THEN TopLevelPass(top_level, i + 1, st, children, cbt)
             ELSE TopLevelPass(top_level, i + 1,
                    NestChildren(
                      [elements |-> Append(st.elements,
                            ListBlock(1, <<ItemSection(PrefixLabel(StatusPrefix(t.status)),
                                                       t, cbt)>>)),
                       rendered |-> st.rendered \cup {t.task_id}],
                      t, children, cbt),
                    children, cbt)

\* fourth pass: whatever is still unrendered, as one flat list
RECURSIVE RemainingLoop(_, _, _, _)
RemainingLoop(all_tasks, i, acc, cbt) ==
    IF i > Len(all_tasks) THEN acc
    ELSE LET t == all_tasks[i]
         IN  IF t.task_id \notin acc.rendered
             THEN RemainingLoop(all_tasks, i + 1,
                    [items |-> Append(acc.items,
                          ItemSection(PrefixLabel(StatusPrefix(t.status)), t, cbt)),
                     rendered |-> acc.rendered \cup {t.task_id}], cbt)
             ELSE RemainingLoop(all_tasks, i + 1, acc, cbt)

BuildClickupElements(cu_activity) ==
    IF cu_activity.tasks_updated = <<>> /\ cu_activity.tasks_completed = <<>>
       /\ cu_activity.comments = <<>>
    THEN <<>>
    ELSE LET all_tasks == cu_activity.tasks_updated
             hier == BuildTaskHierarchy(all_tasks)
             cbt == GroupCommentsByTask(cu_activity.comments)
             completed_ids == {t.task_id : t \in Range(cu_activity.tasks_completed)}
             st1 == CompletedTopLevelPass(hier.top_level, 1,
                        [elements |-> <<>>, rendered |-> {}],
                        hier.children, completed_ids, cbt)
             st2 == CompletedRestPass(cu_activity.tasks_completed, 1, st1, cbt)
             st3 == TopLevelPass(hier.top_level, 1, st2, hier.children, cbt)
             rem == RemainingLoop(all_tasks, 1,
                        [items |-> <<>>, rendered |-> st3.rendered], cbt)
         IN  IF rem.items # <<>>
             THEN Append(st3.elements, ListBlock(1, rem.items))
             ELSE st3.elements

\* ---------------------------------------------------------------------
\* summary_service: strings
\* ---------------------------------------------------------------------
MAX_ITEMS == 15          \* _MAX_ITEMS
ManualNoteCap == 20      \* manual_updates[:20]
ManualNoteLimit == 180   \* if len(clean) > 180
NextCap == 3             \* candidates[:3]

\* the characters short repository names are written in, in code-point
\* order
CodePoints == <<"Z", "a", "d", "e", "f", "i", "n", "p", "r">>
Ord(c) == CHOOSE i \in 1..Len(CodePoints) : CodePoints[i] = c

\* str < str: lexicographic on code points, a proper prefix first
RECURSIVE StrLess(_, _)
StrLess(a, b) ==
    IF b = <<>> THEN FALSE
    ELSE IF a = <<>> THEN TRUE
    ELSE IF Head(a) = Head(b) THEN StrLess(Tail(a), Tail(b))
    ELSE Ord(Head(a)) < Ord(Head(b))

\* sorted(set(...))
RECURSIVE Sorted(_)
Sorted(S) ==
    IF S = {} THEN <<>>
    ELSE LET m == CHOOSE x \in S : \A y \in S \ {x} : StrLess(x, y)
         IN  <<m>> \o Sorted(S \ {m})

\* repo.split("/")[-1]
LastSegment(repo) ==
    LET slashes == {i \in 1..Len(repo) : repo[i] = "/"}
    IN  IF slashes = {} THEN repo
        ELSE SubSeq(repo, (CHOOSE k \in slashes : \A j \in slashes : j <= k) + 1,
                    Len(repo))

\* str(n) for a count
RECURSIVE Decimal(_)
Decimal(n) ==
    LET digit == <<"0", "1", "2", "3", "4", "5", "6", "7", "8", "9">>[(n % 10) + 1]
    IN  IF n < 10 THEN <<digit>> ELSE Append(Decimal(n \div 10), digit)

\* ---------------------------------------------------------------------
\* summary_service._build_github_elements
\* ---------------------------------------------------------------------
\* for c in gh.commits[:_MAX_ITEMS]: commits_by_repo[repo_short].append(c)
RECURSIVE CommitsByRepo(_, _, _)
CommitsByRepo(commits, i, d) ==
    IF i > Len(commits) THEN d
    ELSE CommitsByRepo(commits, i + 1,
                       DictAppend(d, LastSegment(commits[i].repo), commits[i]))

\* for pr in prs[:_MAX_ITEMS]: prs_by_repo[repo_short].append((action, pr))
RECURSIVE PrsByRepo(_, _, _, _)
PrsByRepo(prs, action, i, d) ==
    IF i > Len(prs) THEN d
    ELSE PrsByRepo(prs, action, i + 1,
                   DictAppend(d, LastSegment(prs[i].repo),
                              [action |-> action, pr |-> prs[i]]))

\* the bullets of one repo: its commits, then its PRs
SubItems(repo, commits_by_repo, prs_by_repo) ==
    LET cs == DictGet(commits_by_repo, repo, <<>>)
        ps == DictGet(prs_by_repo, repo, <<>>)
    IN  [i \in 1..Len(cs) |-> Section(<<Text(cs[i].message, FALSE, FALSE)>>)]
        \o [i \in 1..Len(ps) |->
              Section(<<Text(IF ps[i].action = "merged" THEN <<"PR merged: ">>
                             ELSE <<"PR opened: ">>, FALSE, FALSE),
                        Link(ps[i].pr.url, ps[i].pr.title, FALSE)>>)]

\* for repo in all_repos: the repo bullet, then its items at indent 2
RECURSIVE RepoLoop(_, _, _, _, _)
RepoLoop(all_repos, i, elements, commits_by_repo, prs_by_repo) ==
    IF i > Len(all_repos) THEN elements
    ELSE LET repo == all_repos[i]
             head == ListBlock(1, <<Section(<<Text(repo \o <<":">>, FALSE, FALSE)>>)>>)
             sub_items == SubItems(repo, commits_by_repo, prs_by_repo)
         IN  RepoLoop(all_repos, i + 1,
                      IF sub_items # <<>>
                      THEN elements \o <<head, ListBlock(2, sub_items)>>
                      ELSE Append(elements, head),
                      commits_by_repo, prs_by_repo)

\* (a builder that counts the repos of the commits alone)
BuildGithubElementsCommitsOnly(gh) ==
    IF gh.commits = <<>> /\ gh.prs_opened = <<>> /\ gh.prs_merged = <<>>
    THEN <<>>
    ELSE LET commits_by_repo ==
                 CommitsByRepo(Slice(gh.commits, MAX_ITEMS), 1, EmptyDict)
             prs_by_repo ==
                 PrsByRepo(Slice(gh.prs_merged, MAX_ITEMS), "merged", 1,
                     PrsByRepo(Slice(gh.prs_opened, MAX_ITEMS), "opened", 1,
                               EmptyDict))
             all_repos == Sorted(DOMAIN commits_by_repo \cup DOMAIN prs_by_repo)
             flat == SubItems(IF all_repos # <<>> THEN all_repos[1] ELSE <<>>,
                              commits_by_repo, prs_by_repo)
         IN  IF Cardinality(DOMAIN commits_by_repo) > 1
             THEN RepoLoop(all_repos, 1, <<>>, commits_by_repo, prs_by_repo)
             ELSE IF flat # <<>> THEN <<ListBlock(1, flat)>> ELSE <<>>

BuildGithubElements(gh) ==
    IF gh.commits = <<>> /\ gh.prs_opened = <<>> /\ gh.prs_merged = <<>>
    THEN <<>>
    ELSE LET commits_by_repo ==
                 CommitsByRepo(Slice(gh.commits, MAX_ITEMS), 1, EmptyDict)
             prs_by_repo ==
                 PrsByRepo(Slice(gh.prs_merged, MAX_ITEMS), "merged", 1,
                     PrsByRepo(Slice(gh.prs_opened, MAX_ITEMS), "opened", 1,
                               EmptyDict))
             all_repos == Sorted(DOMAIN commits_by_repo \cup DOMAIN prs_by_repo)
             flat == SubItems(IF all_repos # <<>> THEN all_repos[1] ELSE <<>>,
                              commits_by_repo, prs_by_repo)
         IN  IF Len(all_repos) > 1
             THEN RepoLoop(all_repos, 1, <<>>, commits_by_repo, prs_by_repo)
             ELSE IF flat # <<>> THEN <<ListBlock(1, flat)>> ELSE <<>>

\* ---------------------------------------------------------------------
\* summary_service._build_next_elements
\* ---------------------------------------------------------------------
NextStatuses == {"in progress", "in review", "review", "in development"}

\* (a candidate filter that lets child items through)
BuildNextElementsWithChildren(act) ==
    LET completed_ids == {t.task_id : t \in Range(act.clickup.tasks_completed)}
        candidates ==
            SelectSeq(act.clickup.status_changes,
                      LAMBDA t : /\ Lower(t.status) \in NextStatuses
                                 /\ t.task_id \notin completed_ids)
        first == Slice(candidates, NextCap)
    IN  [i \in 1..Len(first) |->
           LET prefix == StatusPrefix(first[i].status)
               label == IF prefix # "" THEN PrefixLabel(prefix) ELSE <<"pick: ">>
           IN  Section(<<Text(label, FALSE, FALSE),
                         Link(first[i].url, first[i].name, FALSE)>>)]

BuildNextElements(act) ==
    LET completed_ids == {t.task_id : t \in Range(act.clickup.tasks_completed)}
        candidates ==
            SelectSeq(act.clickup.status_changes,
                      LAMBDA t : /\ Lower(t.status) \in NextStatuses
                                 /\ t.task_id \notin completed_ids
                                 /\ t.parent_id = None)
        first == Slice(candidates, NextCap)
    IN  [i \in 1..Len(first) |->
           LET prefix == StatusPrefix(first[i].status)
               label == IF prefix # "" THEN PrefixLabel(prefix) ELSE <<"pick: ">>
           IN  Section(<<Text(label, FALSE, FALSE),
                         Link(first[i].url, first[i].name, FALSE)>>)]

\* ---------------------------------------------------------------------
\* summary_service._build_manual_elements
\* ---------------------------------------------------------------------
\* (a cut that keeps as many characters as the limit before the ellipsis)
CleanNoteCutAtLimit(text) ==
    LET clean == Strip(JoinSplit(text))
    IN  IF Len(clean) > ManualNoteLimit
        THEN Append(RStrip(SubSeq(clean, 1, ManualNoteLimit)), Ellipsis)
        ELSE clean

\* one note: collapsed, then cut when longer than the limit
CleanNote(text) ==
    LET clean == Strip(JoinSplit(text))
    IN  IF Len(clean) > ManualNoteLimit
        THEN Append(RStrip(SubSeq(clean, 1, ManualNoteLimit - 1)), Ellipsis)
        ELSE clean

RECURSIVE ManualLoop(_, _, _)
ManualLoop(notes, i, items) ==
    IF i > Len(notes) THEN items
    ELSE IF Strip(JoinSplit(notes[i])) = <<>>
    THEN ManualLoop(notes, i + 1, items)
    ELSE ManualLoop(notes, i + 1,
                    Append(items, Section(<<Text(CleanNote(notes[i]), FALSE, FALSE)>>)))

BuildManualElements(manual_updates) ==
    IF manual_updates = <<>> THEN <<>>
    ELSE LET items == ManualLoop(Slice(manual_updates, ManualNoteCap), 1, <<>>)
         IN  IF items = <<>> THEN <<>> ELSE <<ListBlock(1, items)>>

\* ---------------------------------------------------------------------
\* scheduler._load_manual_updates
\* ---------------------------------------------------------------------
StoredNoteCap == 30      \* [...][:30]

\* (a loader that cuts the stored list before it drops the blank notes)
LoadManualUpdatesCutFirst(is_list, raw) ==
    IF ~is_list THEN <<>>
    ELSE SelectSeq([i \in 1..Len(Slice(raw, StoredNoteCap)) |-> Strip(raw[i])],
                   LAMBDA x : x # <<>>)

\* [str(x).strip() for x in raw if str(x).strip()][:30]
LoadManualUpdates(is_list, raw) ==
    IF ~is_list THEN <<>>
    ELSE Slice(SelectSeq([i \in 1..Len(raw) |-> Strip(raw[i])],
                         LAMBDA x : x # <<>>),
               StoredNoteCap)

\* ---------------------------------------------------------------------
\* summary_service: generate_summary_blocks, generate_summary
\* ---------------------------------------------------------------------
Header(title) == Section(<<Text(<<title>>, TRUE, FALSE)>>)
SectionHeader(title) == ListBlock(0, <<Header(title)>>)

\* (an empty-state test on the inputs instead of on what was emitted)
GenerateSummaryBlocksEmptyByInput(act) ==
    LET gh_part == BuildGithubElements(act.github)
        cu_part == BuildClickupElements(act.clickup)
        manual_part == BuildManualElements(act.manual_updates)
        next_items == BuildNextElements(act)
        rt1 == <<Header("Updates:")>>
        rt2 == IF gh_part # <<>>
               THEN rt1 \o <<SectionHeader("Development:")>> \o gh_part ELSE rt1
        rt3 == IF cu_part # <<>>
               THEN rt2 \o <<SectionHeader("Task updates:")>> \o cu_part ELSE rt2
        rt4 == IF manual_part # <<>>
               THEN rt3 \o <<SectionHeader("Additional updates:")>> \o manual_part
               ELSE rt3
        rt5 == IF /\ act.github = EmptyGitHubActivity
                  /\ act.clickup.tasks_updated = <<>>
                  /\ act.clickup.tasks_completed = <<>>
                  /\ act.clickup.comments = <<>>
                  /\ act.manual_updates = <<>>
               THEN Append(rt4, ListBlock(0,
                      <<Section(<<Text(<<"No tracked activity today.">>, FALSE, TRUE)>>)>>))
               ELSE rt4
        rt6 == IF next_items # <<>>
               THEN rt5 \o <<Header("Next:"), ListBlock(0, next_items)>>
               ELSE rt5
    IN  <<[type |-> "rich_text", elements |-> rt6]>>

\* (a renderer that puts the Next section before the manual notes)
GenerateSummaryBlocksNextEarly(act) ==
    LET gh_part == BuildGithubElements(act.github)
        cu_part == BuildClickupElements(act.clickup)
        manual_part == BuildManualElements(act.manual_updates)
        next_items == BuildNextElements(act)
        rt1 == <<Header("Updates:")>>
        rt2 == IF gh_part # <<>>
               THEN rt1 \o <<SectionHeader("Development:")>> \o gh_part ELSE rt1
        rt3 == IF cu_part # <<>>
               THEN rt2 \o <<SectionHeader("Task updates:")>> \o cu_part ELSE rt2
        rt4 == IF next_items # <<>>
               THEN rt3 \o <<Header("Next:"), ListBlock(0, next_items)>>
               ELSE rt3
        rt5 == IF manual_part # <<>>
               THEN rt4 \o <<SectionHeader("Additional updates:")>> \o manual_part
               ELSE rt4
        rt6 == IF Len(rt5) = 1
               THEN Append(rt5, ListBlock(0,
                      <<Section(<<Text(<<"No tracked activity today.">>, FALSE, TRUE)>>)>>))
               ELSE rt5
    IN  <<[type |-> "rich_text", elements |-> rt6]>>

GenerateSummaryBlocks(act) ==
    LET \* if part: rt_elements.append(header); rt_elements.extend(part)
        Titled(title, part) ==
            IF part # <<>> THEN <<SectionHeader(title)>> \o part ELSE <<>>
        \* if len(rt_elements) == 1: the empty-state bullet
        OrEmptyState(rt) ==
            IF Len(rt) = 1
            THEN Append(rt, ListBlock(0,
                   <<Section(<<Text(<<"No tracked activity today.">>, FALSE, TRUE)>>)>>))
            ELSE rt
        \* if next_items: the Next header and its list
        WithNext(rt, next_items) ==
            IF next_items # <<>>
            THEN rt \o <<Header("Next:"), ListBlock(0, next_items)>>
            ELSE rt
        rt1 == <<Header("Updates:")>>
        rt2 == rt1 \o Titled("Development:", BuildGithubElements(act.github))
        rt3 == rt2 \o Titled("Task updates:", BuildClickupElements(act.clickup))
        rt4 == rt3 \o Titled("Additional updates:",
                             BuildManualElements(act.manual_updates))
        rt5 == OrEmptyState(rt4)
        rt6 == WithNext(rt5, BuildNextElements(act))
    IN  <<[type |-> "rich_text", elements |-> rt6]>>

\* (a fallback that mentions development only when there are commits)
GenerateSummaryCommitsOnly(act) ==
    LET gh == act.github
        dev == IF gh.commits # <<>>
               THEN << <<"Development: ">> \o Decimal(Len(gh.commits))
                       \o <<" commits, ">> \o Decimal(Len(gh.prs_opened))
                       \o <<" PRs opened, ">> \o Decimal(Len(gh.prs_merged))
                       \o <<" PRs merged">> >>
               ELSE <<>>
        done == IF act.clickup.tasks_completed # <<>>
                THEN << <<"Completed: ">> \o Decimal(Len(act.clickup.tasks_completed))
                        \o <<" tasks">> >>
                ELSE <<>>
        wip == IF act.clickup.status_changes # <<>>
               THEN << <<"In progress: ">> \o Decimal(Len(act.clickup.status_changes))
                       \o <<" tasks">> >>
               ELSE <<>>
        extra == IF act.manual_updates # <<>>
                 THEN << <<"Additional updates: ">> \o Decimal(Len(act.manual_updates)) >>
                 ELSE <<>>
    IN  Join(<< <<"Updates:">> >> \o dev \o done \o wip \o extra, <<" | ">>)

GenerateSummary(act) ==
    LET gh == act.github
        dev == IF gh.commits # <<>> \/ gh.prs_opened # <<>> \/ gh.prs_merged # <<>>
               THEN << <<"Development: ">> \o Decimal(Len(gh.commits))
                       \o <<" commits, ">> \o Decimal(Len(gh.prs_opened))
                       \o <<" PRs opened, ">> \o Decimal(Len(gh.prs_merged))
                       \o <<" PRs merged">> >>
               ELSE <<>>
        done == IF act.clickup.tasks_completed # <<>>
                THEN << <<"Completed: ">> \o Decimal(Len(act.clickup.tasks_completed))
                        \o <<" tasks">> >>
                ELSE <<>>
        wip == IF act.clickup.status_changes # <<>>
               THEN << <<"In progress: ">> \o Decimal(Len(act.clickup.status_changes))
                       \o <<" tasks">> >>
               ELSE <<>>
        extra == IF act.manual_updates # <<>>
                 THEN << <<"Additional updates: ">> \o Decimal(Len(act.manual_updates)) >>
                 ELSE <<>>
    IN  Join(<< <<"Updates:">> >> \o dev \o done \o wip \o extra, <<" | ">>)

\* ---------------------------------------------------------------------
\* Specifications of the hierarchy builder and of the Task-updates
\* renderer: any work-tracker activity, then one call
\* ---------------------------------------------------------------------
\* parent references: none, an item of the list, an item outside it ("z")
TaskUniverse ==
    {ClickUpTask(i, s, p) : i \in {"a", "b"}, s \in {"done", "open"},
                            p \in {None, "a", "b", "z"}}

AddUpdatedTask ==
    /\ ~hierarchy.called /\ ~cu_elements.called
    /\ Len(cu.tasks_updated) < MaxTasks
    /\ \E t \in TaskUniverse : cu' = [cu EXCEPT !.tasks_updated = Append(@, t)]
    /\ UNCHANGED <<raw_tasks, parsed, hierarchy, cu_elements>>

\* a completed item is one of the hierarchy set, or one absent from it
AddCompletedTask ==
    /\ ~hierarchy.called /\ ~cu_elements.called
    /\ Len(cu.tasks_completed) < MaxCompleted
    /\ \E t \in Range(cu.tasks_updated) \cup {ClickUpTask("b", "done", None)} :
          cu' = [cu EXCEPT !.tasks_completed = Append(@, t)]
    /\ UNCHANGED <<raw_tasks, parsed, hierarchy, cu_elements>>

\* _build_task_hierarchy(cu.tasks_updated)
CallBuildTaskHierarchy ==
    /\ ~hierarchy.called
    /\ hierarchy' = [called |-> TRUE,
                     top_level |-> BuildTaskHierarchy(cu.tasks_updated).top_level,
                     children |-> BuildTaskHierarchy(cu.tasks_updated).children]
    /\ UNCHANGED <<raw_tasks, parsed, cu, cu_elements>>

\* _build_clickup_elements(cu)
CallBuildClickupElements ==
    /\ ~cu_elements.called
    /\ cu_elements' = [called |-> TRUE, elements |-> BuildClickupElements(cu)]
    /\ UNCHANGED <<raw_tasks, parsed, cu, hierarchy>>

HierarchyNext ==
    (AddUpdatedTask \/ CallBuildTaskHierarchy) /\ UNCHANGED <<pvars, rvars>>
SpecHierarchy == CoreInit /\ [][HierarchyNext]_vars

RenderNext ==
    (AddUpdatedTask \/ AddCompletedTask \/ CallBuildClickupElements)
    /\ UNCHANGED <<pvars, rvars>>
SpecRender == CoreInit /\ [][RenderNext]_vars

\* ---------------------------------------------------------------------
\* Specification of the render passes: a work-tracker activity whose
\* items have distinct ids (as _parse_tasks builds it), then one call of
\* _build_clickup_elements
\* ---------------------------------------------------------------------
Item(id, name, status, parent) ==
    [task_id |-> id, name |-> name, status |-> status, parent_id |-> parent,
     url |-> <<"https://app.clickup.com/t/", id>>]

\* the activity before _build_clickup_elements is called on it
ElementsInit(inputs) ==
    /\ PipelineIdle
    /\ raw_tasks = <<>> /\ parsed = NotParsed
    /\ hierarchy = NotBuilt /\ cu_elements = NotRendered
    /\ cu \in inputs
ElementsNext == CallBuildClickupElements /\ UNCHANGED <<pvars, rvars>>

\* items with the statuses whose prefixes are "wip", "dev-test" and none;
\* tasks_completed holds, in the same order, the items the tracker
\* reported as completed
PassInputs ==
    LET ids == {<<"a", "b", "c", "d">>[i] : i \in 1..MaxTasks}
        name(id) == CASE id = "a" -> <<"Ship v2">>
                      [] id = "b" -> <<"Write docs">>
                      [] id = "c" -> <<"Fix login">>
                      [] OTHER -> <<"Task ", id>>
        items == {Item(i, name(i), st, p) :
                     i \in ids, st \in {"in progress", "In Review", "open"},
                     p \in {None, "z"} \cup ids}
        lists == {ts \in UNION {[1..k -> items] : k \in 0..MaxTasks} :
                     \A i, j \in 1..Len(ts) :
                         i # j => ts[i].task_id # ts[j].task_id}
    IN  {[tasks_updated |-> ts,
          tasks_completed |-> SelectSeq(ts, LAMBDA t : t.task_id \in done),
          status_changes |-> <<>>, comments |-> <<>>] :
            ts \in lists, done \in SUBSET ids}

SpecPasses == ElementsInit(PassInputs) /\ [][ElementsNext]_vars

\* ---------------------------------------------------------------------
\* Specification of the Next section: an activity whose in-progress
\* bucket is any short list of the items below, then one call of
\* generate_summary_blocks
\* ---------------------------------------------------------------------
\* generate_summary_blocks(activity)
CallGenerateSummaryBlocks ==
    /\ ~blocks.called
    /\ blocks' = [called |-> TRUE, elements |-> GenerateSummaryBlocks(activity)]
    /\ UNCHANGED <<activity, summary, svars>>

\* the activity before generate_summary_blocks or generate_summary is
\* called on it
SummaryInit(inputs) ==
    /\ PipelineInit /\ cfg = [show_github |-> TRUE, show_clickup |-> TRUE]
    /\ CoreIdle
    /\ blocks = NotRendered /\ summary = NoText
    /\ ServicesIdle
    /\ activity \in inputs
BlocksNext == CallGenerateSummaryBlocks /\ UNCHANGED <<pvars, cvars>>

\* in-progress bucket items: top-level ones with each Next status, one
\* whose status is not a Next status, a child, and an item whose parent is
\* outside the working set
NextInputs ==
    LET items == {Item("a", <<"Ship v2">>, "in progress", None),
                  Item("b", <<"Write docs">>, "in progress", "a"),
                  Item("c", <<"Fix login">>, "in development", None),
                  Item("d", <<"Tune cache">>, "in review", None),
                  Item("e", <<"Test export">>, "qa", None),
                  Item("f", <<"Trim logs">>, "review", "z")}
    IN  {[github |-> EmptyGitHubActivity,
          clickup |-> [tasks_updated |-> IF shown THEN sc ELSE <<>>,
                       tasks_completed |-> done,
                       status_changes |-> sc, comments |-> <<>>],
          manual_updates |-> <<>>] :
            sc \in UNION {[1..k -> items] : k \in 0..MaxNext},
            done \in {<<>>, <<Item("a", <<"Ship v2">>, "done", None)>>},
            shown \in BOOLEAN}

SpecNext == SummaryInit(NextInputs) /\ [][BlocksNext]_vars

\* ---------------------------------------------------------------------
\* Specification of the Development section: any short lists of commits
\* and pull requests, then one call of generate_summary_blocks
\* ---------------------------------------------------------------------
\* repository slugs: two owners with a repo of the same short name, a
\* second repo, and a slug with no owner part and a capital letter
OrgApp == <<"o", "r", "g", "/", "a", "p", "p">>
LabApp == <<"l", "a", "b", "/", "a", "p", "p">>
OrgInfra == <<"o", "r", "g", "/", "i", "n", "f", "r", "a">>

GitHubCommit(message, repo) == [message |-> message, repo |-> repo]
GitHubPR(title, repo) ==
    [title |-> title, repo |-> repo, url |-> <<"https://github.com/">> \o repo]

SeqsUpTo(S, n) == UNION {[1..k -> S] : k \in 0..n}

GithubInputs ==
    LET commits == {GitHubCommit(m, r) : m \in {<<"fix login">>, <<"add tests">>},
                                         r \in {OrgApp, LabApp, OrgInfra}}
        prs == {GitHubPR(<<"Add export">>, r) :
                   r \in {OrgApp, OrgInfra, <<"Z", "e", "d">>}}
    IN  {[github |-> [commits |-> cs, prs_opened |-> po, prs_merged |-> pm],
          clickup |-> EmptyActivityCU, manual_updates |-> <<>>] :
            cs \in SeqsUpTo(commits, MaxCommits),
            po \in SeqsUpTo(prs, MaxPRs),
            pm \in SeqsUpTo(prs, MaxPRs)}

SpecGithub == SummaryInit(GithubInputs) /\ [][BlocksNext]_vars

\* ---------------------------------------------------------------------
\* Specification of the document: an activity put together from the
\* parts below, then one call of generate_summary_blocks
\* ---------------------------------------------------------------------
ClickUpComment(task_id, comment_text) ==
    [task_id |-> task_id, comment_text |-> comment_text]

ShipV2 == Item("a", <<"Ship v2">>, "in progress", None)
WriteDocs == Item("b", <<"Write docs">>, "in progress", "a")

DocInputs ==
    LET \* nothing; one commit; a commit with an empty message; a PR with an empty
        \* title; two repos
        github ==
            {EmptyGitHubActivity,
             [commits |-> <<GitHubCommit(<<"fix login">>, OrgApp)>>,
              prs_opened |-> <<>>, prs_merged |-> <<>>],
             [commits |-> <<GitHubCommit(<<>>, OrgApp)>>,
              prs_opened |-> <<>>, prs_merged |-> <<>>],
             [commits |-> <<>>, prs_opened |-> <<GitHubPR(<<>>, OrgApp)>>,
              prs_merged |-> <<>>],
             [commits |-> <<GitHubCommit(<<"fix login">>, OrgApp)>>,
              prs_opened |-> <<>>, prs_merged |-> <<GitHubPR(<<"Add export">>, OrgInfra)>>]}

        \* nothing; a parent and its child, in the in-progress bucket too; the
        \* same with the parent completed; an unnamed item with each kind of
        \* prefix; comments without items; an in-progress bucket without items;
        \* an item with a comment
        clickup ==
            {EmptyActivityCU,
             [tasks_updated |-> <<ShipV2, WriteDocs>>, tasks_completed |-> <<>>,
              status_changes |-> <<ShipV2, WriteDocs>>, comments |-> <<>>],
             [tasks_updated |-> <<ShipV2, WriteDocs>>, tasks_completed |-> <<ShipV2>>,
              status_changes |-> <<WriteDocs>>, comments |-> <<>>],
             [tasks_updated |-> <<Item("c", <<>>, "open", None)>>, tasks_completed |-> <<>>,
              status_changes |-> <<>>, comments |-> <<>>],
             [tasks_updated |-> <<Item("c", <<>>, "in progress", None)>>, tasks_completed |-> <<>>,
              status_changes |-> <<Item("c", <<>>, "in progress", None)>>, comments |-> <<>>],
             [tasks_updated |-> <<>>, tasks_completed |-> <<>>, status_changes |-> <<>>,
              comments |-> <<ClickUpComment("a", <<"o", "k">>)>>],
             [tasks_updated |-> <<>>, tasks_completed |-> <<>>,
              status_changes |-> <<ShipV2>>, comments |-> <<>>],
             [tasks_updated |-> <<ShipV2>>, tasks_completed |-> <<>>,
              status_changes |-> <<>>,
              comments |-> <<ClickUpComment("a", <<"o", "k">>),
                             ClickUpComment("a", <<" ">>)>>]}

        \* no note; one note; a blank note; an empty note and a note
        notes ==
            {<<>>,
             << <<"c", "a", "l", "l", " ", "B", "o", "b">> >>,
             << <<" ", "\t", " ">> >>,
             << <<>>, <<"d", "e", "m", "o">> >>}
    IN  {[github |-> g, clickup |-> c, manual_updates |-> m] :
            g \in github, c \in clickup, m \in notes}

SpecDocument == SummaryInit(DocInputs) /\ [][BlocksNext]_vars

\* ---------------------------------------------------------------------
\* Specification of the manual notes: a list of the notes below, then one
\* call of generate_summary_blocks
\* ---------------------------------------------------------------------
\* n characters other than whitespace, neighbours differing
Chars(n) == [i \in 1..n |-> <<"a", "b", "c", "d", "e", "f", "g">>[(i % 7) + 1]]
Spaces(n) == [i \in 1..n |-> " "]

\* notes of 180, 181 and 200 characters; a 200-character note whose 179th
\* character is a space; a note of 209 characters that collapses to 180; a
\* short note with whitespace runs around and inside; a blank note; an
\* empty note.  Batches of more notes than the renderer considers: 21
\* short notes, and 19 short notes, a blank one and two long ones
ManualInputs ==
    LET notes == {Chars(ManualNoteLimit), Chars(ManualNoteLimit + 1), Chars(200),
                  Chars(178) \o <<" ">> \o Chars(21),
                  Chars(90) \o Spaces(30) \o Chars(89),
                  <<" ", "a", " ", "\t", "b", "\n">>,
                  <<" ", "\t">>,
                  <<>>}
        batches == {[i \in 1..(ManualNoteCap + 1) |-> Chars(i)],
                    [i \in 1..(ManualNoteCap + 1) |->
                        IF i < ManualNoteCap - 1 THEN Chars(i)
                        ELSE IF i = ManualNoteCap - 1 THEN Spaces(2)
                        ELSE Chars(ManualNoteLimit + i)]}
    IN  {[github |-> EmptyGitHubActivity, clickup |-> EmptyActivityCU,
          manual_updates |-> m] :
            m \in SeqsUpTo(notes, MaxNotes) \cup batches}

SpecManual == SummaryInit(ManualInputs) /\ [][BlocksNext]_vars

\* ---------------------------------------------------------------------
\* Specification of the comment subtext: a parent and its child in each
\* arrangement that a pass renders, with any short list of the comments
\* below, then one call of _build_clickup_elements
\* ---------------------------------------------------------------------
\* the items are rendered by the third pass; by the first; the child by the
\* second and the parent by the third; both by the fourth.  Comment texts:
\* short with whitespace around and inside; blank; 100 characters; 250
\* characters; 101 characters, the 99th a space
CommentInputs ==
    LET tasks ==
            {[tasks_updated |-> <<ShipV2, WriteDocs>>, tasks_completed |-> <<>>],
             [tasks_updated |-> <<ShipV2, WriteDocs>>, tasks_completed |-> <<ShipV2>>],
             [tasks_updated |-> <<ShipV2, WriteDocs>>,
              tasks_completed |-> <<WriteDocs>>],
             [tasks_updated |-> <<Item("a", <<"Ship v2">>, "in progress", "b"),
                                  WriteDocs>>,
              tasks_completed |-> <<>>]}
        texts == {<<" ", "o", " ", "\t", "k", "\n">>, <<" ", "\n">>,
                  Chars(SubtextLineLimit), Chars(250),
                  Chars(98) \o <<" ">> \o Chars(2)}
        comments == {ClickUpComment("a", x) : x \in texts}
                    \cup {ClickUpComment("b", <<"d", "o", "n", "e">>)}
    IN  {[tasks_updated |-> ts.tasks_updated,
          tasks_completed |-> ts.tasks_completed,
          status_changes |-> <<>>, comments |-> cs] :
            ts \in tasks, cs \in SeqsUpTo(comments, MaxComments)}

SpecComments == ElementsInit(CommentInputs) /\ [][ElementsNext]_vars

\* one or two items with any status label, written in any case; the second
\* may be a child of the first or the other way round; tasks_completed holds
\* the items whose label is a completed one, as _parse_tasks files them
PrefixInputs ==
    LET labels == COMPLETED_STATUSES \cup IN_PROGRESS_STATUSES
                  \cup {"Done", "CLOSED", "In Progress", "QA", "In Review",
                        "Testing", "REVIEW", "Complete", "Resolved"}
                  \cup {"Open", "open", "to do", "done ", "progress", "wip", ""}
        items == {Item("a", <<"Ship v2">>, st, p) : st \in labels, p \in {None, "b"}}
                 \cup {Item("b", <<"Write docs">>, st, p) :
                          st \in labels, p \in {None, "a"}}
        lists == {ts \in UNION {[1..k -> items] : k \in 1..2} :
                     \A i, j \in 1..Len(ts) :
                         i # j => ts[i].task_id # ts[j].task_id}
        notes == {<<>>, <<ClickUpComment("a", <<"d", "o", "n", "e">>)>>}
    IN  {[tasks_updated |-> ts,
          tasks_completed |->
              SelectSeq(ts, LAMBDA t : Lower(t.status) \in COMPLETED_STATUSES),
          status_changes |-> <<>>, comments |-> cs] :
            ts \in lists, cs \in notes}

SpecPrefix == ElementsInit(PrefixInputs) /\ [][ElementsNext]_vars

\* ---------------------------------------------------------------------
\* Specification of the fallback text: an activity with any small number
\* of commits, PRs, completed and in-progress items and notes, then one
\* call of generate_summary
\* ---------------------------------------------------------------------
\* generate_summary(activity)
CallGenerateSummary ==
    /\ ~summary.called
    /\ summary' = [called |-> TRUE, text |-> GenerateSummary(activity)]
    /\ UNCHANGED <<activity, blocks, svars>>

\* 12 commits make a count of two digits
FallbackInputs ==
    LET counts == 0..MaxCount
        copies(n, x) == [i \in 1..n |-> x]
    IN  {[github |->
             [commits |-> copies(c, GitHubCommit(<<"fix login">>, OrgApp)),
              prs_opened |-> copies(o, GitHubPR(<<"Add export">>, OrgApp)),
              prs_merged |-> copies(m, GitHubPR(<<"Add export">>, OrgInfra))],
          clickup |->
             [tasks_updated |-> <<>>,
              tasks_completed |->
                  copies(n, Item("c", <<"Fix login">>, "done", None)),
              status_changes |-> copies(p, ShipV2),
              comments |-> <<>>],
          manual_updates |-> copies(k, <<"d", "e", "m", "o">>)] :
            c \in counts \cup {12}, o \in counts, m \in counts,
            n \in counts, p \in counts, k \in counts}

FallbackNext == CallGenerateSummary /\ UNCHANGED <<pvars, cvars>>
SpecFallback == SummaryInit(FallbackInputs) /\ [][FallbackNext]_vars

\* ---------------------------------------------------------------------
\* Specification of the list caps: lists of commits, of opened and of
\* merged pull requests and stored notes that are shorter than, as long
\* as and longer than their caps; the notes are loaded, then the document
\* is rendered
\* ---------------------------------------------------------------------
\* manual_updates = _load_manual_updates()
CallLoadManualUpdates ==
    /\ ~manual.loaded
    /\ manual' = [manual EXCEPT !.loaded = TRUE,
                                !.updates = LoadManualUpdates(manual.is_list, manual.raw)]
    /\ UNCHANGED <<activity, blocks, summary>>

\* daily = DailyActivity(..., manual_updates=manual_updates);
\* blocks = generate_summary_blocks(daily)
BuildDailyAndRender ==
    /\ manual.loaded /\ ~blocks.called
    /\ activity' = [activity EXCEPT !.manual_updates = manual.updates]
    /\ blocks' = [called |-> TRUE, elements |-> GenerateSummaryBlocks(activity')]
    /\ UNCHANGED <<summary, manual>>

\* the i-th commit, opened PR, merged PR and stored note: the texts differ
\* from item to item, the repos alternate, and every second note has
\* whitespace around it; a stored list may hold a blank note after every
\* two notes, and may be something that is not a list
CapsInit ==
    LET lengths(cap) == {0, 1, cap - 1, cap} \cup (cap + 1)..(cap + MaxOver)
        repo(i) == IF i % 2 = 1 THEN OrgApp ELSE OrgInfra
        note(i) == IF i % 2 = 1 THEN <<"n">> \o Chars(i)
                   ELSE <<" ">> \o <<"n">> \o Chars(i) \o <<"\n", " ">>
        plain(k) == [i \in 1..k |-> note(i)]
        mixed(k) == [j \in 1..(k + k \div 2) |->
                        IF j % 3 = 0 THEN <<" ", "\t">> ELSE note(j - j \div 3)]
    IN  /\ PipelineInit /\ cfg = [show_github |-> TRUE, show_clickup |-> TRUE]
        /\ CoreIdle
        /\ blocks = NotRendered /\ summary = NoText
        /\ \E c \in lengths(MAX_ITEMS), o \in lengths(MAX_ITEMS), m \in lengths(MAX_ITEMS) :
              activity =
                 [github |->
                     [commits |-> [i \in 1..c |-> GitHubCommit(Chars(i), repo(i))],
                      prs_opened |->
                          [i \in 1..o |-> GitHubPR(<<"o">> \o Chars(i), repo(i))],
                      prs_merged |->
                          [i \in 1..m |-> GitHubPR(<<"m">> \o Chars(i), repo(i))]],
                  clickup |-> EmptyActivityCU, manual_updates |-> <<>>]
        /\ \E k \in {0, 1, ManualNoteCap} \cup lengths(StoredNoteCap) :
           \E notes \in {NotLoaded(TRUE, plain(k)), NotLoaded(TRUE, mixed(k)),
                          NotLoaded(FALSE, <<>>)} :
               Services(notes, <<>>, LocalSchedulerNew)
CapsNext ==
    (CallLoadManualUpdates \/ BuildDailyAndRender)
    /\ UNCHANGED <<pvars, cvars, cu_fetch, push, ls, walk>>
SpecCaps == CapsInit /\ [][CapsNext]_vars

\* ---------------------------------------------------------------------
\* _build_task_hierarchy and the passes of _build_clickup_elements, one
\* loop iteration at a time
\* ---------------------------------------------------------------------
\* (an iteration that files the item under its topmost ancestor, which it
\* looks for by following one parent link at a time; j is the ancestor
\* reached so far)
FileTaskUnderRoot(w, tasks) ==
    LET t == tasks[w.i]
        cur == IF w.j = 0 THEN t ELSE tasks[w.j]
        up == {k \in 1..Len(tasks) : tasks[k].task_id = cur.parent_id}
    IN  IF Truthy(cur.parent_id) /\ up # {}
        THEN [w EXCEPT !.j = CHOOSE k \in up : \A o \in up : k <= o]
        ELSE IF w.j # 0
        THEN [w EXCEPT !.children = DictAppend(@, cur.task_id, t),
                       !.i = @ + 1, !.j = 0]
        ELSE [w EXCEPT !.top_level = Append(@, t), !.i = @ + 1]

\* one iteration of "for t in tasks" in _build_task_hierarchy
FileTask(w, tasks) ==
    LET t == tasks[w.i]
    IN  IF Truthy(t.parent_id) /\ t.parent_id \in {x.task_id : x \in Range(tasks)}
        THEN [w EXCEPT !.children = DictAppend(@, t.parent_id, t), !.i = @ + 1]
        ELSE [w EXCEPT !.top_level = Append(@, t), !.i = @ + 1]

\* the next step of _build_clickup_elements(cu): the early return, one
\* iteration of the loop of _build_task_hierarchy, or one iteration of a
\* loop of a pass (j = 0: at the head of "for t in ...", j > 0: inside
\* "for child in children.get(t.task_id, [])")
WalkStep ==
    /\ walk.stage # "done"
    /\ LET tasks == cu.tasks_updated
           completed_ids == {t.task_id : t \in Range(cu.tasks_completed)}
           To(stage) == [walk EXCEPT !.stage = stage, !.i = 1, !.j = 0]
           Rendered(id) == [walk EXCEPT !.rendered = @ \cup {id}]
           \* "for t in top_level", rendering t when wanted(t) and then its children
           Nested(wanted(_), next) ==
               IF walk.i > Len(walk.top_level) THEN To(next)
               ELSE LET t == walk.top_level[walk.i]
                        kids == DictGet(walk.children, t.task_id, <<>>)
                    IN  IF walk.j = 0
                        THEN IF wanted(t) THEN [Rendered(t.task_id) EXCEPT !.j = 1]
                             ELSE [walk EXCEPT !.i = @ + 1]
                        ELSE IF walk.j > Len(kids)
                        THEN [walk EXCEPT !.i = @ + 1, !.j = 0]
                        ELSE [Rendered(kids[walk.j].task_id) EXCEPT !.j = @ + 1]
           \* "for t in list", rendering t when it is not rendered yet
           Flat(list, next) ==
               IF walk.i > Len(list) THEN To(next)
               ELSE [Rendered(list[walk.i].task_id) EXCEPT !.i = @ + 1]
       IN  walk' =
              CASE walk.stage = "start" ->
                     IF tasks = <<>> /\ cu.tasks_completed = <<>> /\ cu.comments = <<>>
                     THEN To("done") ELSE To("hierarchy")
                [] walk.stage = "hierarchy" ->
                     IF walk.i > Len(tasks) THEN To("completed_top")
                     ELSE FileTask(walk, tasks)
                [] walk.stage = "completed_top" ->
                     Nested(LAMBDA t : /\ t.task_id \in completed_ids
                                       /\ t.task_id \notin walk.rendered,
                            "completed_rest")
                [] walk.stage = "completed_rest" ->
                     Flat(cu.tasks_completed, "in_progress")
                [] walk.stage = "in_progress" ->
                     Nested(LAMBDA t : t.task_id \notin walk.rendered, "remaining")
                [] OTHER -> Flat(tasks, "done")

\* any list of up to MaxTasks items with distinct ids, each without a
\* parent, under a parent outside the list or under any item of the
\* list, itself included; any of them reported as completed
WalkInit ==
    ElementsInit(
        LET ids == {<<"a", "b", "c", "d">>[i] : i \in 1..MaxTasks}
            items == {Item(i, <<"Task ", i>>, "in progress", p) :
                         i \in ids, p \in {None, "z"} \cup ids}
            lists == {ts \in UNION {[1..k -> items] : k \in 0..MaxTasks} :
                         \A i, j \in 1..Len(ts) :
                             i # j => ts[i].task_id # ts[j].task_id}
        IN  {[tasks_updated |-> ts,
              tasks_completed |-> SelectSeq(ts, LAMBDA t : t.task_id \in done),
              status_changes |-> <<>>, comments |-> <<>>] :
                ts \in lists, done \in SUBSET ids})
WalkNext ==
    WalkStep
    /\ UNCHANGED <<pvars, cvars, activity, blocks, summary, manual, cu_fetch, push, ls>>
\* the thread inside _build_clickup_elements keeps running
FairWalk == WalkInit /\ [][WalkNext]_vars /\ WF_vars(WalkNext)

\* ---------------------------------------------------------------------
\* desktop.local_scheduler.LocalScheduler
\* ---------------------------------------------------------------------
\* self._on_status(event, detail), called by the execution `by` of
\* _run_pipeline, or by the caller of start or stop (0)
Status(s, event, detail, by) ==
    [s EXCEPT !.status = Append(@, [event |-> event, detail |-> detail, by |-> by])]

\* LocalScheduler.stop
Stop(s) ==
    LET shut == IF s.scheduler # 0 /\ s.schedulers[s.scheduler] = "running"
                THEN [s.schedulers EXCEPT ![s.scheduler] = "stopped"]
                ELSE s.schedulers
    IN  Status([s EXCEPT !.schedulers = shut, !.running = FALSE, !.scheduler = 0],
               "scheduler_stopped", <<>>, 0)

\* (a start that leaves the scheduler it replaces running)
StartOverOld(s, hour, minute, timezone) ==
    IF ~(hour \in 0..23 /\ minute \in 0..59 /\ timezone \in {"Asia/Kathmandu", "UTC"})
    THEN [s EXCEPT !.hour = hour, !.minute = minute, !.timezone = timezone,
                   !.returned = "raised"]
    ELSE Status([s EXCEPT !.hour = hour, !.minute = minute, !.timezone = timezone,
                          !.schedulers = Append(@, "running"),
                          !.scheduler = Len(s.schedulers) + 1,
                          !.running = TRUE, !.returned = None],
                "scheduler_started", <<hour, minute, timezone>>, 0)

\* LocalScheduler.start. CronTrigger raises ValueError for a field out of
\* range or an unknown time zone, after the old scheduler was stopped and
\* the settings were stored.
Start(s, hour, minute, timezone) ==
    LET s1 == IF s.running THEN Stop(s) ELSE s
        s2 == [s1 EXCEPT !.hour = hour, !.minute = minute, !.timezone = timezone]
    IN  IF ~(hour \in 0..23 /\ minute \in 0..59
             /\ timezone \in {"Asia/Kathmandu", "UTC"})
        THEN [s2 EXCEPT !.returned = "raised"]
        ELSE Status([s2 EXCEPT !.schedulers = Append(@, "running"),
                               !.scheduler = Len(s2.schedulers) + 1,
                               !.running = TRUE, !.returned = None],
                    "scheduler_started", <<hour, minute, timezone>>, 0)

\* LocalScheduler.check_health
CheckHealth(s) ==
    IF ~s.running THEN [s EXCEPT !.returned = "True"]
    ELSE IF s.scheduler = 0 \/ s.schedulers[s.scheduler] # "running"
    THEN LET r == Start([s EXCEPT !.running = FALSE], s.hour, s.minute, s.timezone)
         IN  IF r.returned = "raised" THEN r ELSE [r EXCEPT !.returned = "False"]
    ELSE [s EXCEPT !.returned = "True"]

\* one of start, stop and check_health is called (the window calls them
\* from the GUI thread, each runs under self._lock)
CallLocalScheduler ==
    /\ ls.calls < MaxCalls
    /\ \E call \in {<<"stop">>, <<"check_health">>}
                   \cup {<<"start", h[1], h[2], tz>> :
                            h \in {<<18, 0>>, <<9, 30>>, <<24, 0>>},
                            tz \in {"Asia/Kathmandu", "UTC", "Mars/Base"}} :
          LET s == [ls EXCEPT !.calls = @ + 1, !.call = call[1], !.returned = None]
          IN  ls' = CASE call[1] = "stop" -> Stop(s)
                      [] call[1] = "check_health" -> CheckHealth(s)
                      [] OTHER -> Start([s EXCEPT !.asked = Tail(call)],
                                        call[2], call[3], call[4])

\* the BackgroundScheduler in use stops running behind the back of the
\* LocalScheduler
SchedulerDies ==
    /\ ls.scheduler # 0
    /\ ls.schedulers[ls.scheduler] = "running"
    /\ ls' = [ls EXCEPT !.schedulers[ls.scheduler] = "stopped"]

\* one step of one execution of _run_pipeline: trigger_now starts it in a
\* thread of its own at any time, the cron job of a running scheduler
\* starts it when no other instance of the job is running (max_instances=1)
RunPipelineStep ==
    \E e \in 1..MaxExecs :
        LET run == ls.runs[e]
        IN  CASE run.pc = "idle" ->
                   \E by \in {"trigger_now", "scheduled"} :
                       /\ by = "scheduled" =>
                              /\ ls.scheduler # 0
                              /\ ls.schedulers[ls.scheduler] = "running"
                              /\ \A o \in 1..MaxExecs :
                                     ls.runs[o].kind = "scheduled" =>
                                         ls.runs[o].pc = "done"
                       /\ ls' = Status([ls EXCEPT !.runs[e] =
                                           [pc |-> "run_eod_pipeline", kind |-> by,
                                            raised |-> FALSE]],
                                       "pipeline_started", <<>>, e)
              [] run.pc = "run_eod_pipeline" ->
                   \E raised \in BOOLEAN :
                       ls' = [ls EXCEPT !.runs[e].raised = raised,
                                        !.runs[e].pc = "last_run"]
              [] run.pc = "last_run" ->
                   ls' = [ls EXCEPT !.clock = @ + 1, !.last_run = ls.clock + 1,
                                    !.runs[e].pc = "last_result"]
              [] run.pc = "last_result" ->
                   ls' = [ls EXCEPT !.last_result =
                                        IF run.raised THEN "error" ELSE "success",
                                    !.runs[e].pc = "on_status"]
              [] run.pc = "on_status" ->
                   ls' = Status([ls EXCEPT !.runs[e].pc = "done"],
                                IF run.raised THEN "pipeline_error"
                                ELSE "pipeline_completed",
                                <<ls.last_run>>, e)
              [] OTHER -> FALSE

LocalNext ==
    (CallLocalScheduler \/ SchedulerDies)
    /\ UNCHANGED <<pvars, cvars, activity, blocks, summary, manual, cu_fetch, push,
                   walk>>
SpecLocal == CoreInit /\ [][LocalNext]_vars

\* executions of _run_pipeline of a LocalScheduler that was started, or
\* was not
RunsInit ==
    /\ PipelineInit /\ cfg = [show_github |-> TRUE, show_clickup |-> TRUE]
    /\ CoreIdle
    /\ activity = EmptyDailyActivity /\ blocks = NotRendered /\ summary = NoText
    /\ \E local \in {LocalSchedulerNew,
                      Start(LocalSchedulerNew, 18, 0, "Asia/Kathmandu")} :
          Services(NotLoaded(TRUE, <<>>), <<>>, local)
RunsNext ==
    RunPipelineStep
    /\ UNCHANGED <<pvars, cvars, activity, blocks, summary, manual, cu_fetch, push,
                   walk>>
SpecRuns == RunsInit /\ [][RunsNext]_vars

\* ---------------------------------------------------------------------
\* github_service._parse_commits
\* ---------------------------------------------------------------------
\* a push event is [repo, created_at, commits]; a commit of its payload is
\* [sha, message, author |-> [name, email], distinct]

\* (a commit loop that does not consult seen_shas)
ParseCommitsUnseen(push_events, username) ==
    LET RECURSIVE Flat(_)
        Flat(k) ==
            IF k > Len(push_events) THEN <<>>
            ELSE [j \in 1..Len(push_events[k].commits) |->
                     [event |-> push_events[k], c |-> push_events[k].commits[j]]]
                 \o Flat(k + 1)
        pushed == Flat(1)
        \* username.lower() in text.lower(), on the strings the model feeds in
        Mentions(text) ==
            /\ username = "octocat"
            /\ Lower(text) \in {"octocat", "octocat@users.noreply.github.com"}
        \* message.split("\n")[0]
        FirstLine(m) ==
            LET nl == {i \in 1..Len(m) : m[i] = "\n"}
            IN  IF nl = {} THEN m
                ELSE SubSeq(m, 1, (CHOOSE i \in nl : \A j \in nl : i <= j) - 1)
        RECURSIVE Loop(_, _)
        Loop(i, commits) ==
            IF i > Len(pushed) THEN commits
            ELSE LET event == pushed[i].event
                     c == pushed[i].c
                 IN  IF /\ ~Mentions(c.author.name) /\ ~Mentions(c.author.email)
                        /\ ~c.distinct
                     THEN Loop(i + 1, commits)
                     ELSE Loop(i + 1, Append(commits,
                              [sha |-> c.sha,
                               message |-> Slice(FirstLine(c.message), 120),
                               repo |-> event.repo,
                               url |-> <<"https://github.com/", event.repo,
                                         "/commit/", c.sha>>,
                               timestamp |-> event.created_at]))
    IN  Loop(1, <<>>)

\* _parse_commits: every commit of every push event, in event order; a sha
\* is marked as seen before the author is looked at
ParseCommits(push_events, username) ==
    LET RECURSIVE Flat(_)
        Flat(k) ==
            IF k > Len(push_events) THEN <<>>
            ELSE [j \in 1..Len(push_events[k].commits) |->
                     [event |-> push_events[k], c |-> push_events[k].commits[j]]]
                 \o Flat(k + 1)
        pushed == Flat(1)
        \* username.lower() in text.lower(), on the strings the model feeds in
        Mentions(text) ==
            /\ username = "octocat"
            /\ Lower(text) \in {"octocat", "octocat@users.noreply.github.com"}
        \* message.split("\n")[0]
        FirstLine(m) ==
            LET nl == {i \in 1..Len(m) : m[i] = "\n"}
            IN  IF nl = {} THEN m
                ELSE SubSeq(m, 1, (CHOOSE i \in nl : \A j \in nl : i <= j) - 1)
        RECURSIVE Loop(_, _)
        Loop(i, acc) ==
            IF i > Len(pushed) THEN acc.commits
            ELSE LET event == pushed[i].event
                     c == pushed[i].c
                     seen == [acc EXCEPT !.seen_shas = @ \cup {c.sha}]
                 IN  IF c.sha \in acc.seen_shas THEN Loop(i + 1, acc)
                     ELSE IF /\ ~Mentions(c.author.name) /\ ~Mentions(c.author.email)
                             /\ ~c.distinct
                     THEN Loop(i + 1, seen)
                     ELSE Loop(i + 1,
                            [seen EXCEPT !.commits = Append(@,
                              [sha |-> c.sha,
                               message |-> Slice(FirstLine(c.message), 120),
                               repo |-> event.repo,
                               url |-> <<"https://github.com/", event.repo,
                                         "/commit/", c.sha>>,
                               timestamp |-> event.created_at])])
    IN  Loop(1, [commits |-> <<>>, seen_shas |-> {}])

\* commits = _parse_commits(push_events, username)
CallParseCommits ==
    /\ ~push.called
    /\ push' = [push EXCEPT !.called = TRUE,
                            !.commits = ParseCommits(push.events, "octocat")]
    /\ UNCHANGED <<pvars, cvars, activity, blocks, summary, manual, cu_fetch, ls, walk>>

\* the push events of today: up to MaxPushed commits, grouped into events
\* in every way; each commit is by the user, or by somebody else and
\* then distinct or not
CommitsInit ==
    /\ PipelineInit /\ cfg = [show_github |-> TRUE, show_clickup |-> TRUE]
    /\ CoreIdle
    /\ activity = EmptyDailyActivity /\ blocks = NotRendered /\ summary = NoText
    /\ LET octocat == [name |-> "Octocat",
                       email |-> "octocat@users.noreply.github.com"]
           other == [name |-> "Mona Lisa", email |-> "mona@example.com"]
           dicts == {[sha |-> sha, message |-> k.message, author |-> k.author,
                      distinct |-> k.distinct] :
                        sha \in {"s1", "s2"},
                        k \in {[message |-> <<"f", "i", "x">>, author |-> octocat,
                                 distinct |-> TRUE],
                                [message |-> <<"f", "i", "x", "\n", "2">>,
                                 author |-> other, distinct |-> TRUE],
                                [message |-> <<"f", "i", "x">>, author |-> other,
                                 distinct |-> FALSE]}}
           repos == <<"org/api", "org/web">>
           \* cut[i]: commit i is the first of a new push event
           Event(cs, cut, i, j) ==
               LET n == Cardinality({k \in 1..i : cut[k]})
               IN  [repo |-> repos[(n % 2) + 1], created_at |-> 10 - n,
                    commits |-> SubSeq(cs, i, j)]
           Events(cs, cut) ==
               LET starts == SelectSeq([i \in 1..Len(cs) |-> i],
                                       LAMBDA i : i = 1 \/ cut[i])
               IN  [e \in 1..Len(starts) |->
                       Event(cs, cut, starts[e],
                             IF e = Len(starts) THEN Len(cs) ELSE starts[e + 1] - 1)]
       IN  \E n \in 0..MaxPushed :
           \E cs \in [1..n -> dicts] :
           \E cut \in [1..n -> BOOLEAN] :
               Services(NotLoaded(TRUE, <<>>), Events(cs, cut), LocalSchedulerNew)
SpecCommits == CommitsInit /\ [][CallParseCommits]_vars

\* ---------------------------------------------------------------------
\* Specification of the orchestrator
\* ---------------------------------------------------------------------
Init == PipelineInit /\ CoreIdle /\ SummaryIdle
Next == PipelineNext /\ UNCHANGED <<cvars, rvars>>
Spec == Init /\ [][Next]_vars

\* the steps of the worker thread of run r, from waiting for the lock to
\* its end; requests and cron firings are not steps of a thread
ThreadStep(r) ==
    /\ \/ AcquireSendLock(r)
       \/ CheckOOO(r)
       \/ FetchGithub(r)
       \/ FetchClickup(r)
       \/ Render(r)
       \/ SendMessage(r)
       \/ ManualFinish(r)
       \/ ScheduledFinish(r)
    /\ UNCHANGED <<cvars, rvars>>

\* every pipeline call ends and every worker thread that can take a step
\* eventually takes one
FairSpec == Spec /\ \A r \in Runs : WF_vars(ThreadStep(r))


\* =====================================================================
\* Properties of the orchestrator
\* =====================================================================
Names(cs) == [i \in 1..Len(cs) |-> cs[i].fn]
IsPrefix(a, b) == Len(a) <= Len(b) /\ a = SubSeq(b, 1, Len(a))
Called(r, fn) == \E i \in 1..Len(calls[r]) : calls[r][i].fn = fn
CalledWith(r, fn, out) == \E i \in 1..Len(calls[r]) : calls[r][i] = Call(fn, out)
Ended(r) == pc[r] \in {"returned", "raised"}
WasAway(r) == CalledWith(r, "is_user_ooo", "away")
WasPresent(r) == CalledWith(r, "is_user_ooo", "present")

AllStages == <<"is_user_ooo", "fetch_github_activity", "fetch_clickup_activity",
               "generate_summary_blocks", "generate_summary", "send_message">>

\* the stages of a run under the configured source filters
EnabledStages ==
    <<"is_user_ooo">>
    \o (IF cfg.show_github THEN <<"fetch_github_activity">> ELSE <<>>)
    \o (IF cfg.show_clickup THEN <<"fetch_clickup_activity">> ELSE <<>>)
    \o <<"generate_summary_blocks", "generate_summary", "send_message">>

\* C1: at most one run is inside run_eod_pipeline at any time, whatever the
\* interleaving of manual and scheduler-fired triggers; in particular no two
\* runs are at the delivery step together.
C1_SingleFlight ==
    Cardinality({r \in Runs : pc[r] \in InPipeline}) <= 1

\* C2: the status a manual run records when it ends follows its delivery
\* outcome: "error" (never "success") when send_message returned False,
\* "success" when it returned True.
C2_StatusFollowsDelivery ==
    [][\A r \in Runs :
        (kind[r] = "manual" /\ Ended(r) /\ pc'[r] = "done") =>
            /\ CalledWith(r, "send_message", "failed") =>
                   last_pipeline_result'.status = "error"
            /\ CalledWith(r, "send_message", "sent") =>
                   last_pipeline_result'.status = "success"]_vars

\* C3: a run whose OOO guard answered "away" calls no fetcher, no renderer
\* and no delivery, assembles no activity, and ends by returning the skip
\* message (it does not raise).
C3_OOOSkipsEverything ==
    \A r \in Runs :
        WasAway(r) =>
            /\ Names(calls[r]) = <<"is_user_ooo">>
            /\ daily[r] = [github |-> None, clickup |-> None]
            /\ Ended(r)
            /\ ret[r] = Returned(SkipMsg)

C3_Witness ==
    \E r \in Runs : pc[r] = "returned" /\ WasAway(r)

\* C4 (as stated): every run in which the user is not OOO has called each
\* of the six stages exactly once, in the fixed order, when its pipeline ends.
C4_EveryStageExactlyOnce ==
    \A r \in Runs :
        (Ended(r) /\ WasPresent(r)) => Names(calls[r]) = AllStages

\* C4 (amended): the calls of a run are at every moment a prefix of the fixed
\* order OOO check, source-control fetch, work-tracker fetch, render (rich
\* document, then fallback text), deliver, with the fetch of a source left
\* out iff that source is switched off in the configuration; so no stage is
\* called twice and a failed delivery is not retried.  A run in which the
\* user is not OOO and which returns has made every one of these calls.
C4_StagesInOrderOnce ==
    \A r \in Runs :
        /\ IsPrefix(Names(calls[r]), EnabledStages)
        /\ (WasPresent(r) /\ ret[r].how = "return") =>
               Names(calls[r]) = EnabledStages

C4_Witness ==
    \E r \in Runs :
        /\ pc[r] = "returned"
        /\ CalledWith(r, "send_message", "failed")
        /\ Names(calls[r]) = AllStages

\* C5: a failed fetch leaves the empty activity value for its source and
\* does not end the run: the other source is still fetched (when it is
\* switched on), the report is rendered and, unless the renderer itself
\* raises, delivered; an exception leaving the pipeline never comes from a
\* fetcher.
C5_FetchFailureIsFailOpen ==
    \A r \in Runs :
        /\ CalledWith(r, "fetch_github_activity", "failed") =>
               daily[r].github = EmptyActivity
        /\ CalledWith(r, "fetch_clickup_activity", "failed") =>
               daily[r].clickup = EmptyActivity
        /\ ( /\ \/ CalledWith(r, "fetch_github_activity", "failed")
                 \/ CalledWith(r, "fetch_clickup_activity", "failed")
              /\ Ended(r) ) =>
               /\ cfg.show_github => Called(r, "fetch_github_activity")
               /\ cfg.show_clickup => Called(r, "fetch_clickup_activity")
               /\ Called(r, "generate_summary_blocks")
               /\ ret[r].how = "return" => Called(r, "send_message")
               /\ ret[r].how = "raise" =>
                      calls[r][Len(calls[r])].fn \in
                          {"generate_summary_blocks", "generate_summary"}

C5_Witness ==
    \E r \in Runs :
        /\ pc[r] = "returned"
        /\ CalledWith(r, "fetch_github_activity", "failed")
        /\ CalledWith(r, "fetch_clickup_activity", "ok")
        /\ CalledWith(r, "send_message", "sent")

\* C6: every manual trigger is answered "accepted"; the answer exists while
\* the run is still only queued, and it is never changed afterwards,
\* whatever the run's outcome.
C6_AcceptedAtOnce ==
    /\ [](\A r \in Runs : kind[r] = "manual" => response[r].status = "accepted")
    /\ [][\A r \in Runs :
            response'[r] # response[r] => (pc[r] = "idle" /\ pc'[r] = "queued")]_vars

C6_Witness ==
    \E r \in Runs :
        /\ kind[r] = "manual" /\ pc[r] = "done"
        /\ finished[r] = now /\ last_pipeline_result.status = "error"
        /\ response[r].status = "accepted"

\* C7: once a run (manual or scheduled) has completed and is the latest to
\* have done so, the status record holds its completion time and a status
\* of success or error, with an error text of at most 200 characters on
\* error and none on success, and GET /api/scheduler reports that time and
\* status.
C7_StatusRecordHoldsLatestRun ==
    \A r \in Runs :
        (pc[r] = "done" /\ finished[r] = now) =>
            /\ last_pipeline_result.timestamp = finished[r]
            /\ last_pipeline_result.status \in {"success", "error"}
            /\ last_pipeline_result.status = "success" =>
                   last_pipeline_result.error = Nothing
            /\ last_pipeline_result.status = "error" =>
                   /\ last_pipeline_result.error # Nothing
                   /\ Len(last_pipeline_result.error[1]) <= ErrLimit
            /\ get_scheduler_status =
                   [last_run |-> finished[r],
                    last_status |-> last_pipeline_result.status]

\* =====================================================================
\* Properties of the classifier, the hierarchy builder and the renderer
\* =====================================================================
\* the bullets of a rendered element list: <<block index, item index>>
Bullets(elements) ==
    UNION {{<<b, i>> : i \in 1..Len(elements[b].elements)} : b \in 1..Len(elements)}

\* the bullets that link to the work item id
BulletsOf(elements, id) ==
    {bi \in Bullets(elements) :
        \E e \in Range(elements[bi[1]].elements[bi[2]].elements) :
            e.type = "link" /\ e.url = ClickUpTask(id, "", None).url}

ActivityIds ==
    {t.task_id : t \in Range(cu.tasks_updated) \cup Range(cu.tasks_completed)}

\* C8: every distinct work-item id of tasks_updated or tasks_completed is
\* one and only one bullet of the Task-updates elements, whatever the parent
\* references (missing parents, cycles, self-parenting), and there is no
\* other bullet.
C8_EachItemRenderedOnce ==
    cu_elements.called =>
        /\ \A id \in ActivityIds :
              Cardinality(BulletsOf(cu_elements.elements, id)) = 1
        /\ Cardinality(Bullets(cu_elements.elements)) = Cardinality(ActivityIds)

\* a parent cycle in the hierarchy set, with a completed item that is also
\* in the hierarchy set
C8_Witness ==
    /\ cu_elements.called
    /\ Len(cu.tasks_updated) = 2
    /\ cu.tasks_updated[1].task_id # cu.tasks_updated[2].task_id
    /\ cu.tasks_updated[1].parent_id = cu.tasks_updated[2].task_id
    /\ cu.tasks_updated[2].parent_id = cu.tasks_updated[1].task_id
    /\ cu.tasks_completed # <<>>
    /\ Cardinality(Bullets(cu_elements.elements)) = 2

\* the status vocabularies as the claim lists them
C9_Completed == {"complete", "closed", "done", "resolved"}
C9_InProgress == {"in progress", "in review", "review", "qa", "testing",
                  "dev-test", "ready for review", "in development"}
C9_Label(t) == Lower(IF t.status = None THEN "unknown" ELSE t.status)
C9_Key(task) == <<task.task_id, task.status, task.parent_id>>
C9_RawKey(t) == <<t.id, C9_Label(t), t.parent>>
C9_Keys(tasks) == [i \in 1..Len(tasks) |-> C9_Key(tasks[i])]
C9_RawKeys(raw) == [i \in 1..Len(raw) |-> C9_RawKey(raw[i])]

\* C9: the completed list is exactly the raw items whose lower-cased label
\* is in the completed vocabulary, the in-progress list exactly those whose
\* label is in the in-progress vocabulary (exact match), in input order; all
\* other items are in neither list; the two lists are disjoint and together
\* make up the list of active items.
C9_ClassificationPartitions ==
    parsed.called =>
        /\ C9_Keys(parsed.tasks_completed) =
              C9_RawKeys(SelectSeq(raw_tasks, LAMBDA t : C9_Label(t) \in C9_Completed))
        /\ C9_Keys(parsed.tasks_in_progress) =
              C9_RawKeys(SelectSeq(raw_tasks, LAMBDA t : C9_Label(t) \in C9_InProgress))
        /\ C9_Keys(parsed.all_active) =
              C9_RawKeys(SelectSeq(raw_tasks,
                  LAMBDA t : C9_Label(t) \in C9_Completed \cup C9_InProgress))
        /\ Range(parsed.tasks_completed) \cap Range(parsed.tasks_in_progress) = {}
        /\ Range(parsed.all_active) =
              Range(parsed.tasks_completed) \cup Range(parsed.tasks_in_progress)
        /\ Len(parsed.all_active) =
              Len(parsed.tasks_completed) + Len(parsed.tasks_in_progress)

\* a mixed-case completed label next to a label that merely contains one
C9_Witness ==
    /\ parsed.called
    /\ Len(raw_tasks) = 2
    /\ raw_tasks[1].status = "Done"
    /\ raw_tasks[2].status = "not done"
    /\ Len(parsed.tasks_completed) = 1
    /\ parsed.tasks_in_progress = <<>>

C10_HasParentInList(tasks, t) ==
    t.parent_id # None /\ \E u \in Range(tasks) : u.task_id = t.parent_id

RECURSIVE C10_TotalLen(_, _)
C10_TotalLen(children, keys) ==
    IF keys = {} THEN 0
    ELSE LET k == CHOOSE x \in keys : TRUE
         IN  Len(children[k]) + C10_TotalLen(children, keys \ {k})

\* C10: the top-level list is the input restricted to the items whose
\* parent id is unset or is not the id of an item of the input; the child
\* list of p is the input restricted to the items whose parent id is p,
\* for each p that is the id of an input item; both in input order, so
\* each item is filed in exactly one place.
C10_HierarchyFilesEachItemOnce ==
    hierarchy.called =>
        LET tasks == cu.tasks_updated
        IN  /\ hierarchy.top_level =
                  SelectSeq(tasks, LAMBDA t : ~C10_HasParentInList(tasks, t))
            /\ DOMAIN hierarchy.children =
                  {t.parent_id : t \in {u \in Range(tasks) : C10_HasParentInList(tasks, u)}}
            /\ \A p \in DOMAIN hierarchy.children :
                  hierarchy.children[p] =
                      SelectSeq(tasks, LAMBDA t : C10_HasParentInList(tasks, t)
                                                  /\ t.parent_id = p)
            /\ Len(hierarchy.top_level)
                  + C10_TotalLen(hierarchy.children, DOMAIN hierarchy.children)
                  = Len(tasks)

\* two different children filed under the same parent, in input order
C10_Witness ==
    /\ hierarchy.called
    /\ \E p \in DOMAIN hierarchy.children :
          /\ Len(hierarchy.children[p]) = 2
          /\ hierarchy.children[p][1] # hierarchy.children[p][2]
          /\ hierarchy.children[p] = cu.tasks_updated

\* =====================================================================
\* Properties of the summary service
\* =====================================================================
\* the text a bullet shows: the texts of its elements, in order
RECURSIVE VisibleText(_)
VisibleText(elems) ==
    IF elems = <<>> THEN <<>> ELSE Head(elems).text \o VisibleText(Tail(elems))

IsList(e, indent) == e.type = "rich_text_list" /\ e.indent = indent

C11_TopLevel(tasks, t) ==
    t.parent_id = None \/ \A u \in Range(tasks) : u.task_id # t.parent_id

C11_Prefix(status) ==
    CASE status = "in progress" -> <<"wip">>
      [] status = "In Review" -> <<"dev-test">>
      [] OTHER -> <<>>

\* "<status prefix>: <link>", the bare link when there is no prefix
C11_ParentLine(t) ==
    IF C11_Prefix(t.status) = <<>> THEN t.name
    ELSE <<C11_Prefix(t.status)[1] \o ": ">> \o t.name

\* "<link> - <status prefix>", the bare link when there is no prefix
C11_ChildLine(t) ==
    IF C11_Prefix(t.status) = <<>> THEN t.name
    ELSE t.name \o <<" - " \o C11_Prefix(t.status)[1]>>

\* C11: every top-level item that the two completed passes did not render
\* (it is not in the completed bucket) is an indent-1 bullet of its own,
\* reading "<status prefix>: <link>" (the bare link when the prefix is
\* empty) and linking to the item; the element right after it is the
\* indent-2 list of its children not rendered before (those not in the
\* completed bucket), in input order, each reading "<link> - <status
\* prefix>"; when it has no such child, no indent-2 list follows it.
C11_ThirdPassNestsChildren ==
    cu_elements.called =>
        LET tasks == cu.tasks_updated
            E == cu_elements.elements
            completed_ids == {t.task_id : t \in Range(cu.tasks_completed)}
        IN  \A i \in 1..Len(tasks) :
              (C11_TopLevel(tasks, tasks[i]) /\ tasks[i].task_id \notin completed_ids) =>
                LET t == tasks[i]
                    kids == SelectSeq(tasks, LAMBDA c :
                                /\ c.parent_id = t.task_id
                                /\ c.task_id \notin completed_ids)
                IN  \E k \in 1..Len(E) :
                      /\ IsList(E[k], 1)
                      /\ Len(E[k].elements) = 1
                      /\ VisibleText(E[k].elements[1].elements) = C11_ParentLine(t)
                      /\ \E e \in Range(E[k].elements[1].elements) :
                            e.type = "link" /\ e.url = t.url /\ e.text = t.name
                      /\ IF kids # <<>>
                         THEN /\ k < Len(E)
                              /\ IsList(E[k + 1], 2)
                              /\ Len(E[k + 1].elements) = Len(kids)
                              /\ \A j \in 1..Len(kids) :
                                    /\ VisibleText(E[k + 1].elements[j].elements)
                                           = C11_ChildLine(kids[j])
                                    /\ E[k + 1].elements[j].elements[1]
                                           = Link(kids[j].url, kids[j].name, FALSE)
                         ELSE k = Len(E) \/ ~IsList(E[k + 1], 2)

\* parent "Ship v2" and its child "Write docs", both in progress
C11_Witness ==
    /\ cu_elements.called
    /\ cu.tasks_updated = <<Item("a", <<"Ship v2">>, "in progress", None),
                            Item("b", <<"Write docs">>, "in progress", "a")>>
    /\ cu.tasks_completed = <<>>
    /\ Len(cu_elements.elements) = 2
    /\ IsList(cu_elements.elements[1], 1)
    /\ VisibleText(cu_elements.elements[1].elements[1].elements)
           = <<"wip: ", "Ship v2">>
    /\ IsList(cu_elements.elements[2], 2)
    /\ VisibleText(cu_elements.elements[2].elements[1].elements)
           = <<"Write docs", " - wip">>

\* the elements of the rendered document
Document == blocks.elements[1].elements

EmptyStateBullet ==
    ListBlock(0, <<Section(<<Text(<<"No tracked activity today.">>, FALSE, TRUE)>>)>>)

C12_Statuses == {"in progress", "in review", "review", "in development"}

C12_Line(t) ==
    (CASE t.status = "in progress" -> <<"wip: ">>
       [] t.status \in {"in review", "review"} -> <<"dev-test: ">>
       [] OTHER -> <<"pick: ">>) \o t.name

C12_Candidates ==
    LET completed_ids == {t.task_id : t \in Range(activity.clickup.tasks_completed)}
    IN  SelectSeq(activity.clickup.status_changes,
                  LAMBDA t : /\ t.status \in C12_Statuses
                             /\ t.task_id \notin completed_ids
                             /\ t.parent_id = None)

\* C12: the document ends with the bold "Next:" header and one indent-0
\* list exactly when some in-progress-bucket item has a Next status, is not
\* in the completed bucket and has no parent, whether or not the
\* empty-state bullet was emitted; the list holds the first 3 such items in
\* fetch order, each reading "<status prefix>: <link>", or "pick: <link>"
\* when the prefix is empty; without such an item there is no "Next:"
\* header anywhere.
C12_NextListsFirstThreeCandidates ==
    blocks.called =>
        LET rt == Document
            n == Len(rt)
            expected == SubSeq(C12_Candidates, 1,
                               IF Len(C12_Candidates) < 3 THEN Len(C12_Candidates) ELSE 3)
        IN  IF C12_Candidates = <<>>
            THEN \A k \in 1..n : rt[k] # Header("Next:")
            ELSE /\ n >= 3
                 /\ rt[n - 1] = Header("Next:")
                 /\ \A k \in 1..n : rt[k] = Header("Next:") => k = n - 1
                 /\ IsList(rt[n], 0)
                 /\ Len(rt[n].elements) = Len(expected)
                 /\ \A j \in 1..Len(expected) :
                       /\ VisibleText(rt[n].elements[j].elements) = C12_Line(expected[j])
                       /\ rt[n].elements[j].elements[2]
                              = Link(expected[j].url, expected[j].name, FALSE)

\* four candidates in the bucket and no task shown: the empty-state
\* bullet, then a Next list of the first three
C12_Witness ==
    /\ blocks.called
    /\ Len(C12_Candidates) = 4
    /\ C12_Candidates[4] # C12_Candidates[3]
    /\ Document[2] = EmptyStateBullet
    /\ Len(Document) = 4
    /\ Len(Document[4].elements) = 3

\* what the bullets of a list show, bullet by bullet
Lines(list) ==
    [j \in 1..Len(list.elements) |-> VisibleText(list.elements[j].elements)]

\* the text after the final "/"
RECURSIVE C13_Short(_)
C13_Short(repo) ==
    IF \A i \in 1..Len(repo) : repo[i] # "/" THEN repo ELSE C13_Short(Tail(repo))

C13_Repos ==
    {C13_Short(x.repo) : x \in Range(activity.github.commits)
                               \cup Range(activity.github.prs_opened)
                               \cup Range(activity.github.prs_merged)}

\* the bullets of one repo: its commits, its opened PRs, its merged PRs
C13_RepoLines(repo) ==
    LET gh == activity.github
        of(items) == SelectSeq(items, LAMBDA x : C13_Short(x.repo) = repo)
        cs == of(gh.commits)
        po == of(gh.prs_opened)
        pm == of(gh.prs_merged)
    IN  [i \in 1..Len(cs) |-> cs[i].message]
        \o [i \in 1..Len(po) |-> <<"PR opened: ">> \o po[i].title]
        \o [i \in 1..Len(pm) |-> <<"PR merged: ">> \o pm[i].title]

Positions(x) == {k \in 1..Len(Document) : Document[k] = x}

SectionHeaders ==
    {SectionHeader("Development:"), SectionHeader("Task updates:"),
     SectionHeader("Additional updates:")}

\* C14: the italic "No tracked activity today." bullet is in the document
\* exactly when no Development, Task-updates or Additional-updates section
\* is, and then once, right after the "Updates:" header; a snapshot with no
\* commits, PRs, work items, comments or notes renders as the header plus
\* that bullet and nothing else.
C14_EmptyStateIffNoSection ==
    blocks.called =>
        /\ Cardinality(Positions(EmptyStateBullet)) <= 1
        /\ Positions(EmptyStateBullet) # {}
              <=> \A h \in SectionHeaders : Positions(h) = {}
        /\ Positions(EmptyStateBullet) \subseteq {2}
        /\ \A e \in Range(EmptyStateBullet.elements[1].elements) : e.italic
        /\ activity = EmptyDailyActivity
              => Document = <<Header("Updates:"), EmptyStateBullet>>

\* only blank manual notes and an in-progress item that is not among the
\* updated items: no section, so the bullet, and a Next section after it
C14_Witness ==
    /\ blocks.called
    /\ activity.manual_updates = << <<" ", "\t", " ">> >>
    /\ activity.clickup.status_changes # <<>>
    /\ Document[2] = EmptyStateBullet
    /\ Len(Document) = 4

\* the section markers in the order the document must show them
C15_Markers ==
    <<SectionHeader("Development:"), SectionHeader("Task updates:"),
      SectionHeader("Additional updates:"), EmptyStateBullet, Header("Next:")>>

\* C15: the first element of every document is the bold "Updates:" header
\* (and that header is nowhere else); the markers of the sections that
\* are present come in the order Development, Task updates, Additional
\* updates, empty-state bullet, Next; each occurs at most once.
C15_SectionsInFixedOrder ==
    blocks.called =>
        /\ Len(blocks.elements) = 1
        /\ Document[1].type = "rich_text_section"
        /\ VisibleText(Document[1].elements) = <<"Updates:">>
        /\ \A e \in Range(Document[1].elements) : e.bold
        /\ Positions(Header("Updates:")) = {1}
        /\ \A a \in 1..Len(C15_Markers) :
              /\ Cardinality(Positions(C15_Markers[a])) <= 1
              /\ \A b \in (a + 1)..Len(C15_Markers) :
                    \A i \in Positions(C15_Markers[a]), j \in Positions(C15_Markers[b]) :
                        i < j

\* a document with all of Development, Task updates, Additional updates
\* and Next
C15_Witness ==
    /\ blocks.called
    /\ \A a \in {1, 2, 3, 5} : Positions(C15_Markers[a]) # {}
    /\ Positions(C15_Markers[1]) = {2}
    /\ Positions(C15_Markers[5]) = {Len(Document) - 1}

\* every bullet and heading line of the document
AllSections ==
    {Document[k] : k \in {j \in 1..Len(Document) :
                             Document[j].type = "rich_text_section"}}
    \cup UNION {Range(Document[k].elements) :
                   k \in {j \in 1..Len(Document) :
                             Document[j].type = "rich_text_list"}}

\* C16: no line of a rendered document is empty: every bullet has at
\* least one element whose text is not empty, and no text node with an
\* empty text is emitted (a bullet left with nothing to show carries the
\* placeholder instead), also for empty commit messages, empty work-item
\* names and empty PR titles.
C16_NoEmptyBullet ==
    blocks.called =>
        \A s \in AllSections :
            /\ s.elements # <<>>
            /\ \E e \in Range(s.elements) : e.text # <<>>
            /\ \A e \in Range(s.elements) : e.type = "text" => e.text # <<>>

\* whitespace-collapsed: a whitespace character stays, as one space, only
\* when it directly follows a character that is not whitespace and another
\* such character comes later
C17_Collapse(text) ==
    LET kept == SelectSeq([i \in 1..Len(text) |-> i], LAMBDA i :
                    \/ ~IsSpace(text[i])
                    \/ /\ i > 1 /\ ~IsSpace(text[i - 1])
                       /\ \E j \in (i + 1)..Len(text) : ~IsSpace(text[j]))
    IN  [k \in 1..Len(kept) |->
            IF IsSpace(text[kept[k]]) THEN " " ELSE text[kept[k]]]

\* the bullets of the Additional-updates section
C17_Bullets ==
    IF Positions(SectionHeader("Additional updates:")) = {} THEN <<>>
    ELSE Lines(Document[3])

\* the notes the section considers: the first 20, the blank ones left out
C17_Considered ==
    SelectSeq(SubSeq(activity.manual_updates, 1,
                     IF Len(activity.manual_updates) < 20
                     THEN Len(activity.manual_updates) ELSE 20),
              LAMBDA note : C17_Collapse(note) # <<>>)

\* C17 (as stated): every manual note is a bullet showing the note
\* whitespace-collapsed: unmodified when that is at most 180 characters,
\* else exactly its first 179 characters and one ellipsis marker, 180
\* visible characters in total.
C17_NotesCutAt179 ==
    blocks.called =>
        /\ Len(C17_Bullets) = Len(C17_Considered)
        /\ \A i \in 1..Len(C17_Bullets) :
              LET clean == C17_Collapse(C17_Considered[i])
              IN  /\ C17_Bullets[i] =
                         IF Len(clean) <= 180 THEN clean
                         ELSE Append(SubSeq(clean, 1, 179), Ellipsis)
                  /\ Len(clean) > 180 => Len(C17_Bullets[i]) = 180

\* C17 (amended): the bullets of the section are, in order, the notes
\* among the first 20 that are not blank, each whitespace-collapsed;
\* unmodified when that is at most 180 characters, else its first 179
\* characters without a trailing space, then one ellipsis marker: never
\* more than 180 visible characters, and exactly 180 unless the 179th
\* character is a space.
C17_NotesCutAt179Trimmed ==
    blocks.called =>
        /\ Len(C17_Bullets) = Len(C17_Considered)
        /\ \A i \in 1..Len(C17_Bullets) :
              LET clean == C17_Collapse(C17_Considered[i])
                  cut == IF clean[179] = " " THEN SubSeq(clean, 1, 178)
                         ELSE SubSeq(clean, 1, 179)
              IN  /\ C17_Bullets[i] =
                         IF Len(clean) <= 180 THEN clean ELSE Append(cut, Ellipsis)
                  /\ Len(C17_Bullets[i]) <= 180
                  /\ (Len(clean) > 180 /\ clean[179] # " ")
                        => Len(C17_Bullets[i]) = 180

\* a 200-character note shown as 179 characters and the ellipsis, next to
\* a 180-character note shown as it is
C17_Witness ==
    /\ blocks.called
    /\ activity.manual_updates = <<Chars(200), Chars(180)>>
    /\ C17_Bullets = <<Append(Chars(179), Ellipsis), Chars(180)>>

\* the bullets of every list of the Task-updates elements
C18_Bullets == UNION {Range(l.elements) : l \in Range(cu_elements.elements)}

\* the italic text nodes of a bullet
C18_Italics(bullet) ==
    SelectSeq(bullet.elements, LAMBDA e : e.type = "text" /\ e.italic)

\* the comments of the item a bullet links to, in arrival order, the blank
\* ones left out
C18_Comments(bullet) ==
    LET link == SelectSeq(bullet.elements, LAMBDA e : e.type = "link")[1]
    IN  SelectSeq(cu.comments, LAMBDA c :
            /\ link.url = <<"https://app.clickup.com/t/", c.task_id>>
            /\ C17_Collapse(c.comment_text) # <<>>)

\* the first one or two lines, each behind a line break and "note: "
C18_Subtext(lines) ==
    IF Len(lines) = 1 THEN <<"\nnote: ">> \o lines[1]
    ELSE <<"\nnote: ">> \o lines[1] \o <<"\nnote: ">> \o lines[2]

\* C18 (as stated): the bullet of every rendered item shows, as one italic
\* subtext, the first 2 of the item's comments in arrival order, a line
\* each, each whitespace-collapsed and, when longer than 100 characters,
\* cut to its first 99 characters plus one ellipsis marker; the bullet of
\* an item without comments has no subtext node at all.
C18_SubtextCutAt99 ==
    cu_elements.called =>
        \A bullet \in C18_Bullets :
            LET mine == C18_Comments(bullet)
                short(c) == LET clean == C17_Collapse(c.comment_text)
                            IN  IF Len(clean) <= 100 THEN clean
                                ELSE Append(SubSeq(clean, 1, 99), Ellipsis)
            IN  IF mine = <<>> THEN C18_Italics(bullet) = <<>>
                ELSE /\ Len(C18_Italics(bullet)) = 1
                     /\ C18_Italics(bullet)[1].text =
                            C18_Subtext([i \in 1..Len(mine) |-> short(mine[i])])

\* C18 (amended): the same, the cut being the first 99 characters without
\* a trailing space, then one ellipsis marker, so that a line never has
\* more than 100 visible characters and has exactly 100 when it was cut
\* and its 99th character is not a space.
C18_SubtextCutAt99Trimmed ==
    cu_elements.called =>
        \A bullet \in C18_Bullets :
            LET mine == C18_Comments(bullet)
                short(c) == LET clean == C17_Collapse(c.comment_text)
                            IN  IF Len(clean) <= 100 THEN clean
                                ELSE IF clean[99] = " "
                                THEN Append(SubSeq(clean, 1, 98), Ellipsis)
                                ELSE Append(SubSeq(clean, 1, 99), Ellipsis)
                lines == [i \in 1..Len(mine) |-> short(mine[i])]
            IN  IF mine = <<>> THEN C18_Italics(bullet) = <<>>
                ELSE /\ Len(C18_Italics(bullet)) = 1
                     /\ C18_Italics(bullet)[1].text = C18_Subtext(lines)
                     /\ \A i \in 1..Len(lines) :
                           /\ i <= 2 => Len(lines[i]) <= 100
                           /\ ( /\ i <= 2
                                /\ Len(C17_Collapse(mine[i].comment_text)) > 100
                                /\ C17_Collapse(mine[i].comment_text)[99] # " ")
                                 => Len(lines[i]) = 100

\* three comments on "Ship v2": a 250-character one, a short one and a
\* third; two lines are shown, the first of 99 characters and the ellipsis
C18_Witness ==
    /\ cu_elements.called
    /\ Len(cu.comments) = 3
    /\ \A i \in 1..3 : cu.comments[i].task_id = "a"
    /\ cu.comments[1].comment_text = Chars(250)
    /\ cu.comments[2].comment_text = <<" ", "o", " ", "\t", "k", "\n">>
    /\ cu.comments[3].comment_text = Chars(SubtextLineLimit)
    /\ \E bullet \in C18_Bullets :
          /\ Len(C18_Italics(bullet)) = 1
          /\ C18_Italics(bullet)[1].text =
                 <<"\nnote: ">> \o Append(Chars(99), Ellipsis)
                 \o <<"\nnote: ", "o", " ", "k">>

\* a count as it is written
C19_Num(n) ==
    << <<"0">>, <<"1">>, <<"2">>, <<"3">>, <<"4">>, <<"5">>, <<"6">>, <<"7">>,
       <<"8">>, <<"9">>, <<"1", "0">>, <<"1", "1">>, <<"1", "2">>,
       <<"1", "3">> >>[n + 1]

\* C19: the fallback text is "Updates:" followed by the clauses that
\* apply, each behind " | ", in this order: "Development: {c} commits, {o}
\* PRs opened, {m} PRs merged" iff one of the three counts is not zero;
\* "Completed: {n} tasks" iff n > 0; "In progress: {p} tasks" iff p > 0;
\* "Additional updates: {k}" iff k > 0, the counts being the lengths of
\* the commit, opened-PR, merged-PR, completed, in-progress and note lists.
C19_FallbackListsCounts ==
    summary.called =>
        LET c == Len(activity.github.commits)
            o == Len(activity.github.prs_opened)
            m == Len(activity.github.prs_merged)
            n == Len(activity.clickup.tasks_completed)
            p == Len(activity.clickup.status_changes)
            k == Len(activity.manual_updates)
        IN  summary.text =
              <<"Updates:">>
              \o (IF c > 0 \/ o > 0 \/ m > 0
                  THEN <<" | ", "Development: ">> \o C19_Num(c) \o <<" commits, ">>
                       \o C19_Num(o) \o <<" PRs opened, ">>
                       \o C19_Num(m) \o <<" PRs merged">>
                  ELSE <<>>)
              \o (IF n > 0 THEN <<" | ", "Completed: ">> \o C19_Num(n) \o <<" tasks">>
                  ELSE <<>>)
              \o (IF p > 0 THEN <<" | ", "In progress: ">> \o C19_Num(p) \o <<" tasks">>
                  ELSE <<>>)
              \o (IF k > 0 THEN <<" | ", "Additional updates: ">> \o C19_Num(k)
                  ELSE <<>>)

\* 3 commits, 1 PR opened, none merged, 2 completed, nothing else
C19_Witness ==
    /\ summary.called
    /\ Len(activity.github.commits) = 3
    /\ Len(activity.github.prs_opened) = 1
    /\ Len(activity.github.prs_merged) = 0
    /\ Len(activity.clickup.tasks_completed) = 2
    /\ Len(activity.clickup.status_changes) = 0
    /\ Len(activity.manual_updates) = 0
    /\ summary.text = <<"Updates:", " | ", "Development: ", "3", " commits, ", "1",
                        " PRs opened, ", "0", " PRs merged", " | ", "Completed: ",
                        "2", " tasks">>

\* the pairs i < j of items that are each other's parent
C21_Cycles ==
    {p \in (1..Len(cu.tasks_updated)) \X (1..Len(cu.tasks_updated)) :
        /\ p[1] < p[2]
        /\ cu.tasks_updated[p[1]].parent_id = cu.tasks_updated[p[2]].task_id
        /\ cu.tasks_updated[p[2]].parent_id = cu.tasks_updated[p[1]].task_id}

\* the element at position k is a list of this indent with a bullet that
\* links to the item
C21_ListOf(k, indent, t) ==
    /\ k \in 1..Len(cu_elements.elements)
    /\ IsList(cu_elements.elements[k], indent)
    /\ \E s \in Range(cu_elements.elements[k].elements) :
          \E e \in Range(s.elements) : e.type = "link" /\ e.url = t.url

\* C21 as stated: of two items that are each other's parent, the one that
\* comes first in the input is an indent-1 bullet and the other is in the
\* indent-2 list right after it.
C21_FirstOfCycleIsParent ==
    cu_elements.called =>
        \A p \in C21_Cycles :
            \E k \in 1..Len(cu_elements.elements) :
                /\ C21_ListOf(k, 1, cu.tasks_updated[p[1]])
                /\ C21_ListOf(k + 1, 2, cu.tasks_updated[p[2]])

\* C21, amended: of two items that are each other's parent neither is
\* top-level; each is an indent-1 bullet and neither is in an indent-2
\* list.
C21_CycleRendersFlat ==
    cu_elements.called =>
        \A p \in C21_Cycles : \A i \in {p[1], p[2]} :
            LET t == cu.tasks_updated[i]
            IN  /\ t \notin Range(BuildTaskHierarchy(cu.tasks_updated).top_level)
                /\ \E k \in 1..Len(cu_elements.elements) : C21_ListOf(k, 1, t)
                /\ \A k \in 1..Len(cu_elements.elements) : ~C21_ListOf(k, 2, t)

\* "Ship v2" and "Write docs", each the other's parent, both in progress:
\* one flat list with the two bullets in input order
C21_Witness ==
    /\ cu_elements.called
    /\ cu.tasks_updated = <<Item("a", <<"Ship v2">>, "in progress", "b"),
                            Item("b", <<"Write docs">>, "in progress", "a")>>
    /\ cu.tasks_completed = <<>>
    /\ Len(cu_elements.elements) = 1
    /\ IsList(cu_elements.elements[1], 1)
    /\ VisibleText(cu_elements.elements[1].elements[1].elements)
           = <<"wip: ", "Ship v2">>
    /\ VisibleText(cu_elements.elements[1].elements[2].elements)
           = <<"wip: ", "Write docs">>

\* the items of the hierarchy set that are top-level: no parent, or a
\* parent outside the set
C22_TopLevel ==
    {t \in Range(cu.tasks_updated) :
        t.parent_id = None
        \/ \A u \in Range(cu.tasks_updated) : u.task_id # t.parent_id}

C22_CompletedIds == {t.task_id : t \in Range(cu.tasks_completed)}

\* the ids the first pass renders: the completed top-level items and their
\* children
C22_FirstPassIds ==
    LET tops == {t.task_id : t \in {u \in C22_TopLevel : u.task_id \in C22_CompletedIds}}
    IN  tops \cup {c.task_id : c \in {u \in Range(cu.tasks_updated) : u.parent_id \in tops}}

\* the positions of the elements with a bullet that links to the id
C22_Places(id) ==
    {k \in 1..Len(cu_elements.elements) :
        \E s \in Range(cu_elements.elements[k].elements) :
            \E e \in Range(s.elements) :
                e.type = "link" /\ e.url = ClickUpTask(id, "", None).url}

\* C22: a completed-bucket item that the first pass did not render is an
\* indent-1 bullet of its own reading "completed: <link>"; it is not in
\* any indent-2 list; and its bullet comes before the bullet of every
\* top-level item that is not in the completed bucket.
C22_SecondPassRendersRestCompleted ==
    cu_elements.called =>
        \A t \in Range(cu.tasks_completed) :
            t.task_id \notin C22_FirstPassIds =>
                /\ \E k \in C22_Places(t.task_id) :
                      /\ IsList(cu_elements.elements[k], 1)
                      /\ Len(cu_elements.elements[k].elements) = 1
                      /\ VisibleText(cu_elements.elements[k].elements[1].elements)
                             = <<"completed: ">> \o t.name
                      /\ \A u \in C22_TopLevel :
                            u.task_id \notin C22_CompletedIds =>
                                \A m \in C22_Places(u.task_id) : k < m
                /\ \A k \in C22_Places(t.task_id) : ~IsList(cu_elements.elements[k], 2)

\* a completed child of a parent that is not completed: the child's
\* "completed:" bullet, then the parent's bullet, and no indent-2 list
C22_Witness ==
    /\ cu_elements.called
    /\ cu.tasks_updated = <<ClickUpTask("a", "open", None), ClickUpTask("b", "done", "a")>>
    /\ cu.tasks_completed = <<ClickUpTask("b", "done", "a")>>
    /\ Len(cu_elements.elements) = 2
    /\ VisibleText(cu_elements.elements[1].elements[1].elements)
           = <<"completed: ", "Task ", "b">>
    /\ VisibleText(cu_elements.elements[2].elements[1].elements) = <<"Task ", "a">>
    /\ IsList(cu_elements.elements[2], 1)

\* what the bullets of the rendered document show
C23_Shown == {VisibleText(s.elements) : s \in AllSections}

\* a text without the whitespace around it
C23_Core(x) ==
    LET solid == {i \in 1..Len(x) : x[i] \notin {" ", "\t", "\n"}}
    IN  IF solid = {} THEN <<>>
        ELSE SubSeq(x, CHOOSE i \in solid : \A j \in solid : i <= j,
                       CHOOSE i \in solid : \A j \in solid : j <= i)

\* the stored notes that are not blank, in stored order
C23_NonBlank ==
    IF manual.is_list THEN SelectSeq(manual.raw, LAMBDA x : C23_Core(x) # <<>>)
    ELSE <<>>

\* C23: the notes loaded are the first 30 stored notes that are not blank
\* (fewer when there are fewer), in stored order and stripped; in the
\* rendered document a commit, an opened PR and a merged PR is shown iff it
\* is among the first 15 of its list (whatever its repo), and a loaded
\* note is shown iff it is among the first 20.
C23_CapsArePrefixes ==
    /\ manual.loaded =>
          LET kept == C23_NonBlank
          IN  /\ Len(manual.updates) = IF Len(kept) < 30 THEN Len(kept) ELSE 30
              /\ \A i \in 1..Len(manual.updates) :
                    manual.updates[i] = C23_Core(kept[i])
    /\ blocks.called =>
          LET shown == C23_Shown
          IN  /\ \A i \in 1..Len(activity.github.commits) :
                    activity.github.commits[i].message \in shown <=> i <= 15
              /\ \A i \in 1..Len(activity.github.prs_opened) :
                    <<"PR opened: ">> \o activity.github.prs_opened[i].title \in shown
                        <=> i <= 15
              /\ \A i \in 1..Len(activity.github.prs_merged) :
                    <<"PR merged: ">> \o activity.github.prs_merged[i].title \in shown
                        <=> i <= 15
              /\ \A i \in 1..Len(manual.updates) :
                    manual.updates[i] \in shown <=> i <= 20

\* 16 commits, 16 opened and 16 merged PRs, more than 30 stored notes with
\* blank ones among them: 30 notes are loaded, and the 16th items and the
\* 21st note are not shown
C23_Witness ==
    /\ blocks.called
    /\ Len(activity.github.commits) = 16
    /\ Len(activity.github.prs_opened) = 16
    /\ Len(activity.github.prs_merged) = 16
    /\ Len(C23_NonBlank) > 30 /\ Len(manual.raw) > Len(C23_NonBlank)
    /\ Len(manual.updates) = 30
    /\ activity.github.commits[15].message \in C23_Shown
    /\ activity.github.commits[16].message \notin C23_Shown
    /\ manual.updates[20] \in C23_Shown
    /\ manual.updates[21] \notin C23_Shown

\* ---------------------------------------------------------------------
\* C24: parents of classified items that are not classified themselves
\* ---------------------------------------------------------------------
C24_Classified ==
    SelectSeq(raw_tasks,
        LAMBDA t : StatusLabel(t) \in COMPLETED_STATUSES \cup IN_PROGRESS_STATUSES)
C24_Missing ==
    {t.parent : t \in {x \in Range(C24_Classified) : x.parent # None}}
        \ {t.id : t \in Range(C24_Classified)}
C24_Ids(tasks) == {t.task_id : t \in Range(tasks)}
C24_Failed(f) == f.answer \in {None, ConnectionError}

\* C24: every parent of a classified item that is not itself classified is
\* fetched at most once in a run; a parent that was fetched is in
\* tasks_updated and in neither tasks_completed nor status_changes, whatever
\* its status; when the fetch of a parent fails, the run still returns the
\* activity, with the children of that parent in it and the parent absent
\* (so that the children are top-level).
C24_ParentsBestEffort ==
    cu_fetch.called /\ cu_fetch.raised # "comments" =>
        LET fetches == cu_fetch.parent_fetches
        IN  /\ \A i, j \in DOMAIN fetches :
                   /\ fetches[i].pid \in C24_Missing
                   /\ fetches[i].pid = fetches[j].pid => i = j
            /\ \A i \in DOMAIN fetches :
                   IF C24_Failed(fetches[i])
                   THEN /\ cu_fetch.raised = None
                        /\ fetches[i].pid \notin C24_Ids(cu.tasks_updated)
                        /\ \A t \in Range(C24_Classified) :
                               t.parent = fetches[i].pid =>
                                   ToClickupTask(t) \in Range(cu.tasks_updated)
                   ELSE /\ fetches[i].pid \in C24_Ids(cu.tasks_updated)
                        /\ fetches[i].pid \notin C24_Ids(cu.tasks_completed)
                        /\ fetches[i].pid \notin C24_Ids(cu.status_changes)

\* the same, for the runs in which no request failed without an HTTP status
C24_HttpOnly ==
    (\A i \in DOMAIN cu_fetch.parent_fetches :
        cu_fetch.parent_fetches[i].answer # ConnectionError) => C24_ParentsBestEffort

\* ---------------------------------------------------------------------
\* C25: the status prefix and the bullet of an item without one
\* ---------------------------------------------------------------------
C25_Prefix(label) ==
    LET l == Lower(label)
    IN  IF l = "in progress" THEN "wip"
        ELSE IF l \in {"in review", "review", "qa", "testing"} THEN "dev-test"
        ELSE IF l \in {"done", "complete", "closed", "resolved"} THEN "completed"
        ELSE ""
\* "<prefix>: " before the link, " - <prefix>" after it
C25_Before(p) ==
    IF p = "wip" THEN <<"wip: ">>
    ELSE IF p = "dev-test" THEN <<"dev-test: ">> ELSE <<"completed: ">>
C25_After(p) ==
    IF p = "wip" THEN <<" - wip">>
    ELSE IF p = "dev-test" THEN <<" - dev-test">> ELSE <<" - completed">>
\* a bullet without its comment subtext (the italic text)
C25_Plain(bi) ==
    SelectSeq(cu_elements.elements[bi[1]].elements[bi[2]].elements,
              LAMBDA e : ~e.italic)

\* C25: every Task-updates bullet of an item shows the prefix that belongs
\* to the item's status label read case-insensitively: 'wip' for in
\* progress, 'dev-test' for in review, review, qa and testing, 'completed'
\* for done, complete, closed and resolved, as "<prefix>: " before the link
\* or " - <prefix>" after it; for every other label the bullet is the link
\* alone, apart from the comment subtext.
C25_PrefixOfEveryLabel ==
    cu_elements.called =>
        \A t \in Range(cu.tasks_updated) :
            /\ BulletsOf(cu_elements.elements, t.task_id) # {}
            /\ \A bi \in BulletsOf(cu_elements.elements, t.task_id) :
                   LET p == C25_Prefix(t.status)
                       plain == C25_Plain(bi)
                   IN  IF p = ""
                       THEN plain = <<Link(t.url, t.name, FALSE)>>
                       ELSE VisibleText(plain) \in
                                {C25_Before(p) \o t.name, t.name \o C25_After(p)}

\* an item labelled "Open" is shown as its link alone, next to an item
\* labelled "QA" shown as "dev-test: Write docs"
C25_Witness ==
    /\ cu_elements.called
    /\ \E t, u \in Range(cu.tasks_updated) :
          /\ t.status = "Open" /\ u.status = "QA"
          /\ \E bi \in BulletsOf(cu_elements.elements, t.task_id) :
                 cu_elements.elements[bi[1]].elements[bi[2]].elements
                     = <<Link(t.url, t.name, FALSE)>>
          /\ \E bi \in BulletsOf(cu_elements.elements, u.task_id) :
                 VisibleText(C25_Plain(bi)) = <<"dev-test: ">> \o u.name

\* ---------------------------------------------------------------------
\* C26: one commit per id, taken from the first occurrence of the id
\* ---------------------------------------------------------------------
\* the commits of the push events in event order, each with its event
RECURSIVE C26_Pushed(_)
C26_Pushed(events) ==
    IF events = <<>> THEN <<>>
    ELSE [j \in 1..Len(Head(events).commits) |->
             [repo |-> Head(events).repo, created_at |-> Head(events).created_at,
              c |-> Head(events).commits[j]]]
         \o C26_Pushed(Tail(events))
C26_IsFirst(pushed, i) == \A j \in 1..(i - 1) : pushed[j].c.sha # pushed[i].c.sha
\* the push events without every commit whose id occurred before
RECURSIVE C26_FirstOnly(_, _)
C26_FirstOnly(events, seen) ==
    IF events = <<>> THEN <<>>
    ELSE LET cs == Head(events).commits
             keep == SelectSeq([j \in 1..Len(cs) |-> j], LAMBDA j :
                         /\ cs[j].sha \notin seen
                         /\ \A k \in 1..(j - 1) : cs[k].sha # cs[j].sha)
         IN  <<[Head(events) EXCEPT !.commits = [k \in 1..Len(keep) |-> cs[keep[k]]]]>>
             \o C26_FirstOnly(Tail(events), seen \cup {c.sha : c \in Range(cs)})

\* C26: the commit list built from the push events has no two commits with
\* the same id; every commit in it carries the repository and the time of
\* the first push event, in event order, that holds its id; and the list is
\* the one built from the same events with every later occurrence of an id
\* taken out.
C26_FirstOccurrenceWins ==
    push.called =>
        LET out == push.commits
            pushed == C26_Pushed(push.events)
        IN  /\ \A i, j \in 1..Len(out) : out[i].sha = out[j].sha => i = j
            /\ \A i \in 1..Len(out) :
                   \E k \in 1..Len(pushed) :
                       /\ C26_IsFirst(pushed, k)
                       /\ pushed[k].c.sha = out[i].sha
                       /\ pushed[k].repo = out[i].repo
                       /\ pushed[k].created_at = out[i].timestamp
            /\ out = ParseCommits(C26_FirstOnly(push.events, {}), "octocat")

\* the same id pushed to two repositories: one commit, of the first push
C26_Witness ==
    /\ push.called
    /\ Len(push.events) = 2
    /\ push.events[1].repo # push.events[2].repo
    /\ \E c \in Range(push.events[1].commits), d \in Range(push.events[2].commits) :
          c.sha = d.sha
    /\ Len(push.commits) = 1
    /\ push.commits[1].repo = push.events[1].repo

\* ---------------------------------------------------------------------
\* C28: what an execution of LocalScheduler._run_pipeline reports and records
\* ---------------------------------------------------------------------
\* the events the execution e reported, in order
C28_Reported(s, e) ==
    LET mine == SelectSeq(s.status, LAMBDA ev : ev.by = e)
    IN  [i \in 1..Len(mine) |-> mine[i].event]
C28_Outcome(run) == IF run.raised THEN "pipeline_error" ELSE "pipeline_completed"

\* C28: when an execution of _run_pipeline ends it has reported
\* 'pipeline_started' and then one of 'pipeline_completed' and
\* 'pipeline_error' and nothing else, last_run is set, and last_result is
\* 'success' if its pipeline returned and 'error' if its pipeline raised.
C28_RunReportsAndRecords ==
    [][\A e \in 1..MaxExecs :
          ls.runs[e].pc # "done" /\ ls'.runs[e].pc = "done" =>
              /\ C28_Reported(ls', e) = <<"pipeline_started", C28_Outcome(ls.runs[e])>>
              /\ ls'.last_run # NoTime
              /\ ls'.last_result = IF ls.runs[e].raised THEN "error" ELSE "success"]_vars

\* the part of C28 that every interleaving of executions keeps: the reports
\* of an execution are, at any moment, the beginning of 'pipeline_started'
\* followed by the report of its outcome, complete when it has ended, and
\* last_run and last_result have been assigned by then
C28_ReportsInOrder ==
    \A e \in 1..MaxExecs :
        LET run == ls.runs[e]
        IN  /\ run.pc = "idle" => C28_Reported(ls, e) = <<>>
            /\ run.pc \notin {"idle", "done"} =>
                   C28_Reported(ls, e) = <<"pipeline_started">>
            /\ run.pc = "done" =>
                   /\ C28_Reported(ls, e) = <<"pipeline_started", C28_Outcome(run)>>
                   /\ ls.last_run # NoTime
                   /\ ls.last_result \in {"success", "error"}

\* ---------------------------------------------------------------------
\* C29: start, stop and check_health of the desktop scheduler
\* ---------------------------------------------------------------------
C29_Live(s) == {i \in 1..Len(s.schedulers) : s.schedulers[i] = "running"}
C29_Called(op) == ls'.calls = ls.calls + 1 /\ ls'.call = op
C29_Dead(s) == s.scheduler = 0 \/ s.schedulers[s.scheduler] # "running"

\* C29: at most one underlying scheduler is running at any time, and a start
\* on a running LocalScheduler has stopped the old one; check_health on a
\* LocalScheduler that is not marked running returns True, creates nothing
\* and leaves it not running; check_health on one that is marked running
\* while its underlying scheduler is gone or not running returns False and
\* leaves a new underlying scheduler running, started with the hour,
\* minute and time zone last passed to start.
C29_HealthCheckRestartsOnlyRunning ==
    /\ [](Cardinality(C29_Live(ls)) <= 1)
    /\ [][/\ C29_Called("start") /\ ls.running =>
                 C29_Live(ls') \cap 1..Len(ls.schedulers) = {}
          /\ C29_Called("check_health") /\ ~ls.running =>
                 /\ ls'.returned = "True"
                 /\ ~ls'.running
                 /\ ls'.scheduler = ls.scheduler
                 /\ ls'.schedulers = ls.schedulers
                 /\ ls'.status = ls.status
          /\ C29_Called("check_health") /\ ls.running /\ C29_Dead(ls) =>
                 /\ ls'.returned = "False"
                 /\ ls'.running
                 /\ ls'.scheduler = Len(ls.schedulers) + 1
                 /\ C29_Live(ls') = {ls'.scheduler}
                 /\ ls'.status[Len(ls'.status)] =
                        [event |-> "scheduler_started", detail |-> ls.asked, by |-> 0]
                 /\ <<ls'.hour, ls'.minute, ls'.timezone>> = ls.asked]_vars

\* check_health has just restarted a scheduler that had died, and start was
\* called on a running scheduler before
C29_Witness ==
    /\ ls.call = "check_health"
    /\ ls.returned = "False"
    /\ ls.schedulers = <<"stopped", "stopped", "running">>
    /\ ls.asked = <<9, 30, "UTC">>

\* ---------------------------------------------------------------------
\* C30: an accepted manual trigger runs, and gives the send lock back
\* ---------------------------------------------------------------------
\* C30: every queued manual run eventually has ended, with the send lock
\* no longer its own and the status record holding its end time and its
\* outcome; a run that has ended, or has not started, never holds the lock.
C30_TriggerRunsAndReleases ==
    /\ \A r \in Runs :
           (kind[r] = "manual" /\ pc[r] = "queued")
               ~> (/\ pc[r] = "done"
                   /\ send_lock # r
                   /\ last_pipeline_result.timestamp = finished[r]
                   /\ last_pipeline_result.status \in {"success", "error"})
    /\ [](\A r \in Runs : pc[r] \in {"idle", "queued", "done"} => send_lock # r)

\* a manual run has raised, recorded the error and ended, and the manual
\* run triggered after it holds the lock
C30_Witness ==
    \E r, q \in Runs :
        /\ kind[r] = "manual" /\ kind[q] = "manual"
        /\ pc[r] = "done"
        /\ last_pipeline_result.timestamp = finished[r]
        /\ last_pipeline_result.status = "error"
        /\ send_lock = q

\* ---------------------------------------------------------------------
\* C27: the hierarchy builder and the render passes terminate
\* ---------------------------------------------------------------------
\* C27: for every list of work items, with parent cycles and items that are
\* their own parent among them, the loop of _build_task_hierarchy and the
\* passes of _build_clickup_elements come to their end; the hierarchy built
\* by then has filed every item exactly once, and every item has been
\* rendered.
C27_HierarchyAndPassesTerminate ==
    /\ <>(walk.stage = "done")
    /\ [](walk.stage \notin {"start", "hierarchy"} =>
            /\ walk.top_level = BuildTaskHierarchy(cu.tasks_updated).top_level
            /\ walk.children = BuildTaskHierarchy(cu.tasks_updated).children)
    /\ [](walk.stage = "done" =>
            walk.rendered = {t.task_id : t \in Range(cu.tasks_updated)})

\* the walk has ended on a list of two items that are each the other's
\* parent: neither is top-level
C27_Witness ==
    /\ walk.stage = "done"
    /\ Len(cu.tasks_updated) = 2
    /\ cu.tasks_updated[1].parent_id = cu.tasks_updated[2].task_id
    /\ cu.tasks_updated[2].parent_id = cu.tasks_updated[1].task_id
    /\ walk.top_level = <<>>

\* the walk has ended on a list whose only item is its own parent
C27_WitnessSelf ==
    /\ walk.stage = "done"
    /\ Len(cu.tasks_updated) = 1
    /\ cu.tasks_updated[1].parent_id = cu.tasks_updated[1].task_id

====
